---- MODULE Spec2Model ----
(***************************************************************************)
(* Verification model of the adaptive parallel crawl engine:               *)
(*   backend/super_parallel_engine.py   load balancer, retry system,       *)
(*                                      worker path of the engine          *)
(*   backend/master_scraper_controller.py  tier scrapers                   *)
(*   backend/ai_scraper_core.py         adaptive rate limiter              *)
(*   backend/medical_scraper_api.py     control surface (start/stop)       *)
(*                                                                         *)
(* Python floats are held in fixed point: success rates in units of        *)
(* 1/SrScale, response times in centiseconds, CPU in percent, memory in    *)
(* MB.  The multipliers of the load balancer are held in tenths.           *)
(***************************************************************************)
EXTENDS Integers, Naturals, Sequences, FiniteSets, TLC

VARIABLES
    tier_performance,   \* DynamicLoadBalancer.tier_performance
    metrics,            \* SuperParallelScrapingEngine.metrics (cpu, memory)
    lb_return,          \* value returned by the last calculate_optimal_concurrency
    lb_updates,         \* number of update_tier_performance calls made so far
    phase1_system,      \* module global of medical_scraper_api: system created?
    phase1_config,      \* Phase1MedicalScraperSystem.phase1_config
    current_operation,  \* module global of medical_scraper_api (<<>> is None)
    background,         \* background runs added by Start and not yet finished
    response,           \* outcome of the last control-surface call
    clock,              \* utcnow() in whole seconds
    tier,               \* the tier handled by _process_tier_super_parallel
    tier_pc,            \* position of _process_tier_super_parallel
    urls,               \* number of URLs generated for the tier (tasks are 1..urls)
    batch,              \* the URLs of the batch being gathered
    tier_semaphore,     \* value of the asyncio.Semaphore of the tier
    scraper_semaphore,  \* value of TierScraperBase.semaphore
    pc,                 \* per task: position in _process_single_url_with_retry
    attempt,            \* per task: the worker loop's attempt counter
    retry_count,        \* per task: retry_count of the innermost extract frame
    held,               \* per task: scraper slots held by its nested extract frames
    fetches,            \* per task: HTTP requests issued so far
    last_error,         \* per task: last_error of the worker loop
    results,            \* per task: the ScrapingResult returned (<<>> while pending)
    failures_left,      \* failed fetches the environment may still produce
    content_hashes,     \* AdvancedDeduplicator.content_hashes
    url_patterns,       \* AdvancedDeduplicator.url_patterns
    domain_stats,       \* AdaptiveRateLimiter.domain_stats
    now,                \* time.time() in whole seconds
    tasks,              \* the ScrapingTask objects handed to schedule_tasks
    task_queues,        \* IntelligentTaskScheduler.task_queues (tasks by index)
    next_batch,         \* the last get_next_batch call since scheduling, and its batch
    call,               \* a call of a side-effect free method and what it returned
    runner,             \* which entry point runs the tiers ("none" before a run)
    run_pc,             \* position of the run (launch_super_parallel_extraction or
                        \* execute_massive_scraping_operation)
    tier_tasks,         \* per tier: what asyncio.gather holds for the tier's task
    monitoring_task,    \* the task running _continuous_performance_monitoring
    final_results,      \* the run summary returned (<<>> until then)
    worker_pc,          \* per worker: position in extract_content_from_url and
                        \* the is_duplicate call it makes
    worker_input,       \* per worker: the content read and the URL of its task
    worker_returned,    \* per worker: what is_duplicate returned (<<>> until then)
    loop_task           \* the task the event loop is running (<<>> between tasks)

lbVars == <<tier_performance, metrics, lb_return, lb_updates>>
apiVars == <<phase1_system, phase1_config, current_operation, background, response, clock>>
tierVars == <<tier, tier_pc, urls, batch, tier_semaphore>>
taskVars == <<scraper_semaphore, pc, attempt, retry_count, held, fetches, last_error, results, failures_left>>
dedupVars == <<content_hashes, url_patterns>>
limiterVars == <<domain_stats, now>>
engineVars == <<tierVars, taskVars, dedupVars>>
schedVars == <<tasks, task_queues, next_batch>>
callVars == <<call>>
runVars == <<runner, run_pc, tier_tasks, monitoring_task, final_results>>
workerVars == <<worker_pc, worker_input, worker_returned, loop_task>>

----------------------------------------------------------------------------
(* ScrapingTier (ai_scraper_core.py).  "journals" stands for the seven     *)
(* tiers that have no entry in the per-tier tables and take the defaults.  *)
Tiers == {"government", "international", "academic", "journals"}

SrScale == 10000

Min(a, b) == IF a < b THEN a ELSE b

Max(a, b) == IF a > b THEN a ELSE b

----------------------------------------------------------------------------
(* DynamicLoadBalancer                                                     *)

\* the defaultdict factory of DynamicLoadBalancer.__init__
TierDefaults ==
    [avg_response_time |-> 500, success_rate |-> 8000,
     current_load |-> 0, optimal_concurrency |-> 50]

\* base_concurrency.get(tier.value, 50)
base_concurrency(t) ==
    CASE t = "government" -> 100
      [] t = "international" -> 80
      [] t = "academic" -> 120
      [] OTHER -> 50

\* min(1.5, max(0.3, success_rate)), in units of 1/SrScale
success_multiplier(success_rate) ==
    Min((15 * SrScale) \div 10, Max((3 * SrScale) \div 10, success_rate))

\* the response-time ladder, in tenths; response_time in centiseconds
time_multiplier(response_time) ==
    IF response_time < 200 THEN 12
    ELSE IF response_time < 500 THEN 10
    ELSE IF response_time < 1000 THEN 8
    ELSE 5

\* cpu_factor of _calculate_system_resource_multiplier, in tenths
cpu_factor(m) ==
    IF m.cpu_usage_percent > 90 THEN 5
    ELSE IF m.cpu_usage_percent > 80 THEN 7
    ELSE IF m.cpu_usage_percent > 70 THEN 9
    ELSE 10

\* memory_factor of _calculate_system_resource_multiplier, in tenths
memory_factor(m) ==
    IF m.memory_usage_mb > 8000 THEN 6
    ELSE IF m.memory_usage_mb > 6000 THEN 8
    ELSE IF m.memory_usage_mb > 4000 THEN 9
    ELSE 10

calculate_system_resource_multiplier(m) == Min(cpu_factor(m), memory_factor(m))

\* int(base_level * success_multiplier * time_multiplier * system_multiplier)
raw_optimal(t, stats, m) ==
    (base_concurrency(t) * success_multiplier(stats.success_rate)
       * time_multiplier(stats.avg_response_time)
       * calculate_system_resource_multiplier(m)) \div (SrScale * 100)

\* the upper clamp alone
apply_upper_bound(optimal) == Min(optimal, 500)

\* max(10, min(optimal, 500))
apply_bounds(optimal) == Max(10, Min(optimal, 500))

\* the value calculate_optimal_concurrency stores and returns
optimal_concurrency(t, stats, m) == apply_bounds(raw_optimal(t, stats, m))

\* the statistics with the samples taken over as they are, no averaging
replaced_stats(stats, response_time, success, current_load) ==
    [stats EXCEPT
       !.avg_response_time = response_time,
       !.success_rate = IF success THEN SrScale ELSE 0,
       !.current_load = current_load]

\* the statistics after update_tier_performance(tier, response_time, success, load)
updated_stats(stats, response_time, success, current_load) ==
    [stats EXCEPT
       !.avg_response_time = (response_time + 9 * stats.avg_response_time) \div 10,
       !.success_rate = ((IF success THEN SrScale ELSE 0) + 9 * stats.success_rate) \div 10,
       !.current_load = current_load]

\* inputs of the load balancer: response times (centiseconds, 0 s .. 10^6 s),
\* CPU readings (percent) and resident memory readings (MB)
ResponseTimes == {0, 3000, 100000000}

CpuReadings == {0, 75, 85, 95}

MemReadings == {0, 5000, 7000, 9000}

MaxUpdates == 2

\* one iteration of _continuous_performance_monitoring: a fresh CPU/memory sample
MonitorSample ==
    /\ \E cpu \in CpuReadings, mem \in MemReadings :
          metrics' = [metrics EXCEPT !.cpu_usage_percent = cpu,
                                     !.memory_usage_mb = mem]
    /\ UNCHANGED <<tier_performance, lb_return, lb_updates>>

\* DynamicLoadBalancer.calculate_optimal_concurrency(tier, metrics)
calculate_optimal_concurrency(t) ==
    LET value == optimal_concurrency(t, tier_performance[t], metrics) IN
    /\ tier_performance' =
          [tier_performance EXCEPT ![t].optimal_concurrency = value]
    /\ lb_return' = <<[tier |-> t, value |-> value]>>
    /\ UNCHANGED <<metrics, lb_updates>>

\* DynamicLoadBalancer.update_tier_performance(tier, response_time, success, load)
update_tier_performance(t, response_time, success, current_load) ==
    /\ lb_updates < MaxUpdates
    /\ tier_performance' =
          [tier_performance EXCEPT
             ![t] = updated_stats(@, response_time, success, current_load)]
    /\ lb_updates' = lb_updates + 1
    /\ UNCHANGED <<metrics, lb_return>>

----------------------------------------------------------------------------
(* Control surface (medical_scraper_api.py).  Optional[...] request fields *)
(* are <<>> for None and <<v>> for a value; quality thresholds are held in *)
(* hundredths.                                                             *)

None == <<>>

Some(v) == <<v>>

\* Python truthiness of an Optional number: None and 0 are falsy
truthy(x) == x # None /\ x[1] # 0

TargetDocuments == {Some(-1), Some(0), Some(1), Some(1000001)}

WorkerCounts == {Some(50)}

QualityThresholds == {None, Some(-10), Some(100), Some(200)}

\* ScrapingRequest (the tiers field is never read by the handlers)
ScrapingRequest ==
    [target_documents : TargetDocuments,
     max_concurrent_workers : WorkerCounts,
     quality_threshold : QualityThresholds]

MaxClock == 2

MaxRuns == 2

\* the first validation of start_comprehensive_scraping
target_documents_rejected(request) ==
    /\ truthy(request.target_documents)
    /\ (request.target_documents[1] < 1 \/ request.target_documents[1] > 1000000)

\* the second validation of start_comprehensive_scraping
quality_threshold_rejected(request) ==
    /\ truthy(request.quality_threshold)
    /\ (request.quality_threshold[1] < 0 \/ request.quality_threshold[1] > 100)

\* a conflict check that never fires
operation_never_running == FALSE

\* current_operation and current_operation.get('status') == 'running'
operation_running ==
    current_operation # None /\ current_operation[1].status = "running"

\* Phase1MedicalScraperSystem.__init__: the configuration before any Start
Phase1Defaults ==
    [target_documents |-> Some(50000),
     max_concurrent_workers |-> Some(1000),
     quality_threshold |-> Some(60)]

\* POST /start-comprehensive-scraping
start_comprehensive_scraping(request) ==
    IF target_documents_rejected(request) \/ quality_threshold_rejected(request)
    THEN /\ response' = [call |-> "start_comprehensive_scraping", status |-> 422,
                          request |-> request]
         /\ UNCHANGED <<phase1_system, phase1_config, current_operation, background, clock>>
    ELSE IF operation_running
    THEN /\ response' = [call |-> "start_comprehensive_scraping", status |-> 409,
                          request |-> request]
         /\ UNCHANGED <<phase1_system, phase1_config, current_operation, background, clock>>
    ELSE /\ Len(background) < MaxRuns
         /\ phase1_system' = TRUE
         /\ phase1_config' =
               [target_documents |-> request.target_documents,
                max_concurrent_workers |-> request.max_concurrent_workers,
                quality_threshold |-> request.quality_threshold]
         /\ current_operation' =
               Some([operation_id |-> clock, status |-> "running", config |-> request,
                     progress |-> [total_processed |-> 0, successful |-> 0,
                                   failed |-> 0, current_tier |-> "initializing"]])
         /\ background' = Append(background, [operation_id |-> clock, pc |-> "queued"])
         /\ response' = [call |-> "start_comprehensive_scraping", status |-> 200,
                          request |-> request]
         /\ UNCHANGED clock

\* POST /start-extraction: only the conflict check; the handler then falls off
\* its end and the None it returns fails the Dict response model
start_medical_extraction(request) ==
    /\ response' = [call |-> "start_medical_extraction",
                     status |-> IF operation_running THEN 409 ELSE 500,
                     request |-> request]
    /\ UNCHANGED <<phase1_system, phase1_config, current_operation, background, clock>>

\* POST /stop-extraction
stop_extraction ==
    IF ~operation_running
    THEN /\ response' = [call |-> "stop_extraction", status |-> 400]
         /\ UNCHANGED <<phase1_system, phase1_config, current_operation, background, clock>>
    ELSE /\ current_operation' = Some([current_operation[1] EXCEPT !.status = "stopped"])
         /\ response' = [call |-> "stop_extraction", status |-> 200]
         /\ UNCHANGED <<phase1_system, phase1_config, background, clock>>

\* GET /status: the status field of the ScrapingStatus returned
get_scraping_status ==
    IF current_operation = None
    THEN [status |-> "idle"]
    ELSE [status |-> current_operation[1].status]

\* run_extraction_background up to its await: the run starts executing
run_extraction_begin(i) ==
    /\ background[i].pc = "queued"
    /\ current_operation' =
          Some([current_operation[1] EXCEPT !.progress.current_tier = "executing"])
    /\ background' = [background EXCEPT ![i].pc = "executing"]
    /\ UNCHANGED <<phase1_system, phase1_config, response, clock>>

\* sequence s without its i-th element
RemoveAt(s, i) == SubSeq(s, 1, i - 1) \o SubSeq(s, i + 1, Len(s))

\* run_extraction_background after execute_phase1_complete has returned
run_extraction_completed(i, processed, success) ==
    /\ background[i].pc = "executing"
    /\ current_operation' =
          Some([current_operation[1] EXCEPT
                  !.status = "completed",
                  !.progress = [total_processed |-> processed, successful |-> success,
                                failed |-> processed - success,
                                current_tier |-> "completed"]])
    /\ background' = RemoveAt(background, i)
    /\ UNCHANGED <<phase1_system, phase1_config, response, clock>>

\* run_extraction_background when execute_phase1_complete has raised
run_extraction_failed(i) ==
    /\ background[i].pc = "executing"
    /\ current_operation' = Some([current_operation[1] EXCEPT !.status = "failed"])
    /\ background' = RemoveAt(background, i)
    /\ UNCHANGED <<phase1_system, phase1_config, response, clock>>

\* a second of wall-clock time passes (operation ids are second-resolution stamps)
Tick ==
    /\ clock < MaxClock
    /\ clock' = clock + 1
    /\ UNCHANGED <<phase1_system, phase1_config, current_operation, background, response>>

----------------------------------------------------------------------------
(* IntelligentRetrySystem                                                  *)

\* max_retries.get(task.tier, 3)
tier_max_retries(t) ==
    CASE t = "government" -> 5
      [] t = "international" -> 4
      [] OTHER -> 3

\* error texts reaching the worker: "HTTP <status>: <reason>" of a non-200
\* response, the duplicate notice, str(e) of an exception caught by the scraper
\* (empty for asyncio.TimeoutError, which the worker turns into "Unknown error")
HttpErrorStatuses == {404, 503}

http_error_text(status) ==
    CASE status = 404 -> "HTTP 404: Not Found"
      [] status = 429 -> "HTTP 429: Too Many Requests"
      [] status = 502 -> "HTTP 502: Bad Gateway"
      [] status = 503 -> "HTTP 503: Service Unavailable"
      [] status = 504 -> "HTTP 504: Gateway Timeout"
      [] OTHER -> "HTTP 500: Internal Server Error"

ExceptionTexts == {"Connection reset by peer", ""}

\* a retry list holding '429' alone
retry_on_rate_limit_only(error_str) ==
    error_str \in {"HTTP 429: Too Many Requests"}

\* any(retry_error in error_str ...) over 'timeout', 'connection', 'network',
\* '502', '503', '504', '429' on the lower-cased text
retry_on_errors(error_str) ==
    error_str \in {"HTTP 429: Too Many Requests", "HTTP 502: Bad Gateway",
                   "HTTP 503: Service Unavailable", "HTTP 504: Gateway Timeout",
                   "HTTP 408: Request Timeout",
                   "Connection reset by peer", "[Errno 111] Connection refused"}

\* the exceptions handed to the retry system: what raised them and their str()
RetryErrors ==
    {[raised_by |-> "timeout", error_str |-> ""],
     [raised_by |-> "connection reset", error_str |-> "Connection reset by peer"],
     [raised_by |-> "connection refused", error_str |-> "[Errno 111] Connection refused"],
     [raised_by |-> "dns failure",
      error_str |-> "Cannot connect to host example.org:443 ssl:default [Name or service not known]"],
     [raised_by |-> "http 429", error_str |-> "HTTP 429: Too Many Requests"],
     [raised_by |-> "http 502", error_str |-> "HTTP 502: Bad Gateway"],
     [raised_by |-> "http 503", error_str |-> "HTTP 503: Service Unavailable"],
     [raised_by |-> "http 504", error_str |-> "HTTP 504: Gateway Timeout"],
     [raised_by |-> "http 404", error_str |-> "HTTP 404: Not Found"],
     [raised_by |-> "http 408", error_str |-> "HTTP 408: Request Timeout"],
     [raised_by |-> "parse failure",
      error_str |-> "'utf-8' codec can't decode byte 0xff in position 0: invalid start byte"],
     [raised_by |-> "duplicate content", error_str |-> "Duplicate content detected"]}

\* base_delays.get(task.tier, 2.0), in milliseconds
retry_base_delay(t) ==
    CASE t = "government" -> 2000
      [] t = "international" -> 3000
      [] t = "academic" -> 1500
      [] OTHER -> 2000

\* random.uniform(-0.2, 0.2), in thousandths
JitterDraws == {-200, -100, 0, 100, 200}

\* '429' in error_str or 'rate limit' in error_str, on the lower-cased text
rate_limit_indicated(error_str) == error_str \in {"HTTP 429: Too Many Requests"}

\* a delay returned as computed
uncapped(adaptive_delay) == adaptive_delay

\* min(adaptive_delay, 60.0)
capped(adaptive_delay) == Min(adaptive_delay, 60000)

\* IntelligentRetrySystem.calculate_retry_delay(task, attempt_number, error)
\* with the value drawn for the jitter
calculate_retry_delay(t, attempt_number, error_str, draw) ==
    LET exponential_delay == retry_base_delay(t) * (2 ^ attempt_number)
        jitter == (draw * exponential_delay) \div 1000
        adaptive_delay == exponential_delay + jitter
    IN capped(IF rate_limit_indicated(error_str) THEN adaptive_delay * 5 ELSE adaptive_delay)

MaxAttempt == 6

\* the attempt numbers a caller passes
AttemptNumbers == 0..MaxAttempt

\* the error test alone, without the per-tier limit
should_retry_unlimited(t, error_str, attempt_number) == retry_on_errors(error_str)

\* IntelligentRetrySystem.should_retry(task, error, attempt_number)
should_retry(t, error_str, attempt_number) ==
    IF attempt_number >= tier_max_retries(t) THEN FALSE
    ELSE retry_on_errors(error_str)

----------------------------------------------------------------------------
(* SuperParallelScrapingEngine and TierScraperBase: one tier of a launch   *)

\* the keys of WorldClassMedicalScraper.tier_scrapers
EngineTiers == {"government", "international", "academic"}

\* max_concurrent passed by GovernmentScraper, InternationalScraper, AcademicScraper
max_concurrent(t) ==
    CASE t = "government" -> 100
      [] t = "international" -> 80
      [] t = "academic" -> 120
      [] OTHER -> 50

\* len(base_urls.get(tier, [])) of _generate_tier_urls
url_pattern_count(t) ==
    CASE t = "government" -> 3
      [] t = "international" -> 2
      [] t = "academic" -> 2
      [] OTHER -> 0

\* len(medical_terms)
MedicalTerms == 15

\* len(_generate_tier_urls(tier, target_count))
generate_tier_urls(t, target_count) ==
    IF url_pattern_count(t) = 0 THEN 0
    ELSE Min(url_pattern_count(t) * Min(MedicalTerms, target_count \div url_pattern_count(t)),
             target_count)

\* _estimate_current_bandwidth: random.uniform(50, 150), in Mbps
Bandwidths == {75, 125}

\* batches of a single URL
single_url_batch_size(t, current_bandwidth) == 1

\* optimal_batch_size of BandwidthOptimizationAI.optimize_request_batching
optimal_batch_size(t, current_bandwidth) ==
    LET base_batch == CASE t = "government" -> 100
                        [] t = "international" -> 80
                        [] t = "academic" -> 120
                        [] OTHER -> 50
        multiplier == IF current_bandwidth > 100 THEN 15
                      ELSE IF current_bandwidth > 50 THEN 10
                      ELSE IF current_bandwidth > 20 THEN 7
                      ELSE 4
    IN (base_batch * multiplier) \div 10

\* result.processing_time of a successful extraction, in centiseconds
ProcessingTimes == {20}

\* an acquire that never waits
slot_unguarded(value) == TRUE

\* asyncio.Semaphore: acquire proceeds only while the counter is positive
slot_available(value) == value > 0

\* urls[i:i + batch_size] of the batch loop
batch_urls == {u \in 1..urls : batch.first <= u /\ u < batch.first + batch.size}

\* tasks holding the tier's concurrency slot (inside `async with semaphore`)
slot_holders == {u \in 1..urls : pc[u] \in {"wait_scraper", "fetch", "inner_backoff", "outer_backoff"}}

\* a failed ScrapingResult that leaves error_details at its default
failed_result_without_details(error_details) ==
    [success |-> FALSE, error_details |-> "", processing_time |-> 0]

\* the ScrapingResult of a failed task or extraction
failed_result(error_details) ==
    [success |-> FALSE, error_details |-> error_details, processing_time |-> 0]

\* _process_tier_super_parallel up to the first gather: the concurrency is
\* computed, the semaphore created, the URLs generated and the first batch started
TierStart ==
    /\ tier_pc = "init"
    /\ LET value == optimal_concurrency(tier, tier_performance[tier], metrics)
           count == generate_tier_urls(tier, phase1_config.target_documents[1] \div Cardinality(EngineTiers))
       IN /\ tier_performance' = [tier_performance EXCEPT ![tier].optimal_concurrency = value]
          /\ lb_return' = <<[tier |-> tier, value |-> value]>>
          /\ tier_semaphore' = value
          /\ urls' = count
          /\ \E current_bandwidth \in Bandwidths :
                batch' = [first |-> 1, size |-> optimal_batch_size(tier, current_bandwidth)]
          /\ tier_pc' = IF count = 0 THEN "done" ELSE "gather"
          /\ pc' = [u \in 1..count |-> IF u < 1 + batch'.size THEN "wait_tier" ELSE "new"]
          /\ attempt' = [u \in 1..count |-> 0]
          /\ retry_count' = [u \in 1..count |-> 0]
          /\ held' = [u \in 1..count |-> 0]
          /\ fetches' = [u \in 1..count |-> 0]
          /\ last_error' = [u \in 1..count |-> ""]
          /\ results' = [u \in 1..count |-> None]
    /\ UNCHANGED <<tier, metrics, scraper_semaphore, failures_left, dedupVars>>

\* extract_content_from_url is entered with retry_count rc: its frame takes a
\* scraper slot and issues the request, or waits for a slot
EnterExtract(u, rc) ==
    /\ retry_count' = [retry_count EXCEPT ![u] = rc]
    /\ IF slot_available(scraper_semaphore)
       THEN /\ scraper_semaphore' = scraper_semaphore - 1
            /\ held' = [held EXCEPT ![u] = @ + 1]
            /\ fetches' = [fetches EXCEPT ![u] = @ + 1]
            /\ pc' = [pc EXCEPT ![u] = "fetch"]
       ELSE /\ pc' = [pc EXCEPT ![u] = "wait_scraper"]
            /\ UNCHANGED <<scraper_semaphore, held, fetches>>

\* the worker returns result res: slot released, tier statistics updated
Finish(u, res, response_time) ==
    /\ results' = [results EXCEPT ![u] = Some(res)]
    /\ pc' = [pc EXCEPT ![u] = "done"]
    /\ tier_semaphore' = tier_semaphore + 1
    /\ tier_performance' =
          [tier_performance EXCEPT ![tier] = updated_stats(@, response_time, res.success, 0)]

\* extract_content_from_url has returned res to the worker loop: every nested
\* frame leaves its `async with`, then the loop body decides
AfterExtract(u, res) ==
    /\ scraper_semaphore' = scraper_semaphore + held[u]
    /\ held' = [held EXCEPT ![u] = 0]
    /\ UNCHANGED <<attempt, retry_count, fetches>>
    /\ IF res.success
       THEN /\ Finish(u, res, res.processing_time)
            /\ UNCHANGED last_error
       ELSE LET error_str == IF res.error_details = "" THEN "Unknown error"
                             ELSE res.error_details
            IN /\ last_error' = [last_error EXCEPT ![u] = error_str]
               /\ IF should_retry(tier, error_str, attempt[u])
                  THEN /\ pc' = [pc EXCEPT ![u] = "outer_backoff"]
                       /\ UNCHANGED <<results, tier_semaphore, tier_performance>>
                  ELSE Finish(u, failed_result(error_str), 0)

\* `async with semaphore` of _process_single_url_with_retry, then the first
\* call of extract_content_from_url(url, session, 0).  gather starts the
\* workers in list order and the semaphore wakes its waiters first-in first-out.
AcquireSlot(u) ==
    /\ tier_pc = "gather"
    /\ pc[u] = "wait_tier"
    /\ \A v \in 1..urls : v < u => pc[v] # "wait_tier"
    /\ slot_available(tier_semaphore)
    /\ tier_semaphore' = tier_semaphore - 1
    /\ EnterExtract(u, 0)
    /\ UNCHANGED <<tier, tier_pc, urls, batch, attempt, last_error, results, failures_left,
                   dedupVars, tier_performance, metrics, lb_return>>

\* `async with self.semaphore` of a waiting extract frame
AcquireScraper(u) ==
    /\ pc[u] = "wait_scraper"
    /\ slot_available(scraper_semaphore)
    /\ EnterExtract(u, retry_count[u])
    /\ UNCHANGED <<tierVars, attempt, last_error, results, failures_left,
                   dedupVars, tier_performance, metrics, lb_return>>

\* the request answers 200: duplicate check, then the result
FetchOk(u) ==
    /\ pc[u] = "fetch"
    /\ IF u \in content_hashes \/ u \in url_patterns
       THEN /\ AfterExtract(u, failed_result("Duplicate content detected"))
            /\ UNCHANGED dedupVars
       ELSE /\ content_hashes' = content_hashes \cup {u}
            /\ url_patterns' = url_patterns \cup {u}
            /\ \E processing_time \in ProcessingTimes :
                  AfterExtract(u, [success |-> TRUE, error_details |-> "",
                                   processing_time |-> processing_time])
    /\ UNCHANGED <<tier, tier_pc, urls, batch, failures_left, metrics, lb_return>>

\* the request answers with a status other than 200
FetchHttpError(u, status) ==
    /\ pc[u] = "fetch"
    /\ failures_left > 0
    /\ failures_left' = failures_left - 1
    /\ AfterExtract(u, failed_result(http_error_text(status)))
    /\ UNCHANGED <<tier, tier_pc, urls, batch, dedupVars, metrics, lb_return>>

\* the request raises (timeout, connection error): the except branch of
\* extract_content_from_url
FetchRaise(u, text) ==
    /\ pc[u] = "fetch"
    /\ failures_left > 0
    /\ failures_left' = failures_left - 1
    /\ IF retry_count[u] < 3
       THEN /\ pc' = [pc EXCEPT ![u] = "inner_backoff"]
            /\ UNCHANGED <<scraper_semaphore, held, attempt, retry_count, fetches, last_error,
                           results, tier_semaphore, tier_performance>>
       ELSE AfterExtract(u, failed_result(text))
    /\ UNCHANGED <<tier, tier_pc, urls, batch, dedupVars, metrics, lb_return>>

\* asyncio.sleep(2 ** retry_count) is over: the scraper calls itself with
\* retry_count + 1 from inside its `async with`
InnerBackoffDone(u) ==
    /\ pc[u] = "inner_backoff"
    /\ EnterExtract(u, retry_count[u] + 1)
    /\ UNCHANGED <<tierVars, attempt, last_error, results, failures_left,
                   dedupVars, tier_performance, metrics, lb_return>>

\* asyncio.sleep(retry_delay) is over: attempt += 1 and the loop test
OuterBackoffDone(u) ==
    /\ pc[u] = "outer_backoff"
    /\ attempt' = [attempt EXCEPT ![u] = @ + 1]
    /\ IF attempt[u] + 1 < 5
       THEN /\ EnterExtract(u, attempt[u] + 1)
            /\ UNCHANGED <<results, tier_semaphore, tier_performance>>
       ELSE /\ Finish(u, failed_result(last_error[u]), 0)
            /\ UNCHANGED <<scraper_semaphore, held, retry_count, fetches>>
    /\ UNCHANGED <<tier, tier_pc, urls, batch, last_error, failures_left,
                   dedupVars, metrics, lb_return>>

\* gather of the batch has returned: _update_batch_metrics, then the next
\* batch or the end of the tier
BatchDone ==
    /\ tier_pc = "gather"
    /\ \A u \in batch_urls : pc[u] = "done"
    /\ metrics' = [metrics EXCEPT
                     !.tasks_completed = @ + Cardinality({u \in batch_urls : results[u] # None}),
                     !.tasks_failed = @ + Cardinality({u \in batch_urls : results[u] = None})]
    /\ IF batch.first + batch.size < urls + 1
       THEN /\ batch' = [batch EXCEPT !.first = @ + batch.size]
            /\ pc' = [u \in 1..urls |->
                        IF batch.first + batch.size <= u /\ u < batch.first + 2 * batch.size
                        THEN "wait_tier" ELSE pc[u]]
            /\ UNCHANGED tier_pc
       ELSE /\ tier_pc' = "done"
            /\ UNCHANGED <<batch, pc>>
    /\ UNCHANGED <<tier, urls, tier_semaphore, scraper_semaphore, attempt, retry_count, held,
                   fetches, last_error, results, failures_left, dedupVars,
                   tier_performance, lb_return>>

----------------------------------------------------------------------------
(* AdaptiveRateLimiter.  Delays are held in microseconds, response times   *)
(* in centiseconds, the clock in whole seconds.                            *)

Domains == {"www.cdc.gov", "example.com"}

\* the defaultdict factory of AdaptiveRateLimiter.__init__
DomainDefaults ==
    [success_count |-> 0, error_count |-> 0, total_requests |-> 0,
     avg_response_time |-> 0, last_request_time |-> 0,
     consecutive_errors |-> 0, rate_limit_detected |-> FALSE]

\* the first pattern of base_delays (in insertion order) contained in the domain
base_delay(domain) ==
    CASE domain \in {"www.cdc.gov", "medlineplus.gov", "www.nih.gov", "www.fda.gov"} -> 3000000
      [] domain \in {"www.harvard.edu"} -> 2000000
      [] domain \in {"www.mayoclinic.org", "my.clevelandclinic.org"} -> 1500000
      [] domain \in {"www.who.int"} -> 4000000
      [] OTHER -> 1000000

\* the success-rate adjustment (only after more than 10 requests)
success_rate_adjusted(delay, stats) ==
    IF stats.total_requests > 10
    THEN IF 10 * stats.success_count < 5 * stats.total_requests THEN delay * 3
         ELSE IF 10 * stats.success_count < 7 * stats.total_requests THEN delay * 2
         ELSE IF 10 * stats.success_count < 9 * stats.total_requests THEN (delay \div 2) * 3
         ELSE (delay \div 5) * 4
    ELSE delay

\* min(5.0, 1.5 ** consecutive_errors) applied to the delay
error_adjusted(delay, consecutive_errors) ==
    CASE consecutive_errors <= 0 -> delay
      [] consecutive_errors = 1 -> (delay \div 2) * 3
      [] consecutive_errors = 2 -> (delay \div 4) * 9
      [] consecutive_errors = 3 -> (delay \div 8) * 27
      [] OTHER -> delay * 5

\* the rate-limit adjustment
rate_limit_adjusted(delay, rate_limit_detected) ==
    IF rate_limit_detected THEN delay * 10 ELSE delay

\* the response-time adjustment
response_time_adjusted(delay, avg_response_time) ==
    IF avg_response_time > 1000 THEN (delay \div 2) * 3
    ELSE IF avg_response_time > 500 THEN (delay \div 5) * 6
    ELSE delay

\* AdaptiveRateLimiter._calculate_adaptive_delay(domain, stats)
calculate_adaptive_delay(domain, stats) ==
    response_time_adjusted(
        rate_limit_adjusted(
            error_adjusted(success_rate_adjusted(base_delay(domain), stats),
                           stats.consecutive_errors),
            stats.rate_limit_detected),
        stats.avg_response_time)

\* The same computation in the arithmetic Python carries it out in: IEEE 754
\* doubles, every product rounded to nearest, ties to even.  A positive double
\* is [mant, exp] with value mant * 2^exp and 2^52 <= mant < 2^53; the mantissa
\* is a sequence of five limbs of 13 bits, least significant first.
Limb == 2 ^ 13

\* the limbs of a number given by its columns, carries moved up
RECURSIVE carried(_, _)
carried(columns, carry) ==
    IF columns = <<>> THEN <<>>
    ELSE LET total == Head(columns) + carry
         IN <<total % Limb>> \o carried(Tail(columns), total \div Limb)

\* the sum of a[i] * b[k + 1 - i] from i on
RECURSIVE column(_, _, _, _)
column(a, b, k, i) ==
    IF i > Len(a) THEN 0
    ELSE (IF k + 1 - i \in 1..Len(b) THEN a[i] * b[k + 1 - i] ELSE 0) + column(a, b, k, i + 1)

\* the exact product of two mantissas
big_mul(a, b) ==
    carried(<<column(a, b, 1, 1), column(a, b, 2, 1), column(a, b, 3, 1), column(a, b, 4, 1),
              column(a, b, 5, 1), column(a, b, 6, 1), column(a, b, 7, 1), column(a, b, 8, 1),
              column(a, b, 9, 1), column(a, b, 10, 1)>>, 0)

\* bit n of a (bit 0 is the lowest)
bit(a, n) == (a[(n \div 13) + 1] \div (2 ^ (n % 13))) % 2

\* limb i of a, zero beyond its length
limb(a, i) == IF i \in 1..Len(a) THEN a[i] ELSE 0

\* floor(a / 2^n) in five limbs
shifted_right(a, n) ==
    LET part(j) ==
            (limb(a, (n \div 13) + j) \div (2 ^ (n % 13)))
            + (limb(a, (n \div 13) + j + 1) % (2 ^ (n % 13))) * (2 ^ (13 - (n % 13)))
    IN <<part(1), part(2), part(3), part(4), part(5)>>

\* a + 1
incremented(a) == carried(<<a[1] + 1>> \o Tail(a), 0)

\* the double nearest to mant * 2^exp for a mantissa of 53 + n bits, n > 0
rounded(p, n, exp) ==
    LET q == shifted_right(p, n)
        round_up ==
            /\ bit(p, n - 1) = 1
            /\ \/ bit(q, 0) = 1
               \/ \E k \in 0..(n - 2) : bit(p, k) = 1
        r == IF round_up THEN incremented(q) ELSE q
    IN IF bit(r, 53) = 1
       THEN [mant |-> shifted_right(r, 1), exp |-> exp + n + 1]
       ELSE [mant |-> r, exp |-> exp + n]

\* x * y
float_mul(x, y) ==
    LET p == big_mul(x.mant, y.mant)
    IN rounded(p, IF bit(p, 105) = 1 THEN 53 ELSE 52, x.exp + y.exp)

\* the double n * 2^e, for 0 < n < 2^13
dyadic(n, e) ==
    LET k == 52 - (CHOOSE j \in 0..12 : 2 ^ j <= n /\ n < 2 ^ (j + 1))
        part(i) == IF i = (k \div 13) + 1 THEN (n * (2 ^ (k % 13))) % Limb
                   ELSE IF i = (k \div 13) + 2 THEN (n * (2 ^ (k % 13))) \div Limb
                   ELSE 0
    IN [mant |-> <<part(1), part(2), part(3), part(4), part(5)>>, exp |-> e - k]

\* the literal 0.8 = 0x1.999999999999ap-1
float_0_8 == [mant |-> <<6554, 3276, 1638, 4915, 1>>, exp |-> -53]

\* the literal 1.2 = 0x1.3333333333333p+0
float_1_2 == [mant |-> <<4915, 6553, 3276, 1638, 1>>, exp |-> -52]

\* a < b for mantissas, compared from limb i down
RECURSIVE big_less(_, _, _)
big_less(a, b, i) ==
    IF i = 0 THEN FALSE
    ELSE IF a[i] # b[i] THEN a[i] < b[i]
    ELSE big_less(a, b, i - 1)

\* x < y
float_less(x, y) ==
    x.exp < y.exp \/ (x.exp = y.exp /\ big_less(x.mant, y.mant, 5))

\* base_delay as a double: every entry of base_delays is a multiple of 0.5
float_base_delay(domain) == dyadic(base_delay(domain) \div 500000, -1)

\* base_delay *= 3.0 / 2.0 / 1.5 / 0.8 by success rate
float_success_rate_adjusted(delay, stats) ==
    IF stats.total_requests > 10
    THEN IF 10 * stats.success_count < 5 * stats.total_requests
         THEN float_mul(delay, dyadic(3, 0))
         ELSE IF 10 * stats.success_count < 7 * stats.total_requests
         THEN float_mul(delay, dyadic(2, 0))
         ELSE IF 10 * stats.success_count < 9 * stats.total_requests
         THEN float_mul(delay, dyadic(3, -1))
         ELSE float_mul(delay, float_0_8)
    ELSE delay

\* an error multiplier that does not grow with the second error
float_error_multiplier_flat(consecutive_errors) ==
    IF consecutive_errors >= 4 THEN dyadic(5, 0)
    ELSE IF consecutive_errors = 2 THEN dyadic(1, 0)
    ELSE dyadic(3 ^ consecutive_errors, -consecutive_errors)

\* min(5.0, 1.5 ** consecutive_errors): the powers of 1.5 are exact
float_error_multiplier(consecutive_errors) ==
    IF consecutive_errors >= 4 THEN dyadic(5, 0)
    ELSE dyadic(3 ^ consecutive_errors, -consecutive_errors)

\* base_delay *= error_multiplier
float_error_adjusted(delay, consecutive_errors) ==
    IF consecutive_errors > 0
    THEN float_mul(delay, float_error_multiplier(consecutive_errors))
    ELSE delay

\* a rate-limit adjustment that leaves the delay alone
float_rate_limit_ignored(delay, rate_limit_detected) == delay

\* base_delay *= 10.0
float_rate_limit_adjusted(delay, rate_limit_detected) ==
    IF rate_limit_detected THEN float_mul(delay, dyadic(10, 0)) ELSE delay

\* base_delay *= 1.5 / 1.2 by response time
float_response_time_adjusted(delay, avg_response_time) ==
    IF avg_response_time > 1000 THEN float_mul(delay, dyadic(3, -1))
    ELSE IF avg_response_time > 500 THEN float_mul(delay, float_1_2)
    ELSE delay

\* AdaptiveRateLimiter._calculate_adaptive_delay(domain, stats), as a double
float_adaptive_delay(domain, stats) ==
    float_response_time_adjusted(
        float_rate_limit_adjusted(
            float_error_adjusted(
                float_success_rate_adjusted(float_base_delay(domain), stats),
                stats.consecutive_errors),
            stats.rate_limit_detected),
        stats.avg_response_time)

\* the domains whose delay is asked for
DelayDomains ==
    {"www.cdc.gov", "www.harvard.edu", "www.mayoclinic.org", "www.who.int", "example.com"}

MaxErrors == 5

\* the stats a delay is computed from
DelayStats ==
    {[DomainDefaults EXCEPT !.total_requests = counts[1],
                            !.success_count = counts[2],
                            !.error_count = counts[1] - counts[2],
                            !.consecutive_errors = errors,
                            !.rate_limit_detected = flag,
                            !.avg_response_time = avg] :
        counts \in {<<0, 0>>, <<20, 0>>, <<20, 12>>, <<20, 16>>, <<20, 20>>},
        errors \in 0..MaxErrors, flag \in BOOLEAN, avg \in {0, 600, 1200}}

\* a permit test that ignores the elapsed time
permit_always_due(current_time, stats, required_delay) == TRUE

\* time_since_last < required_delay is false: the permit may be granted
permit_due(current_time, stats, required_delay) ==
    (current_time - stats.last_request_time) * 1000000 >= required_delay

MaxRequests == 2

MaxResponses == 2

MaxNow == 1033

TimeSteps == {3, 30}

\* permits granted and results recorded so far, over all domains
RECURSIVE SumOver(_, _, _)
SumOver(stats, field, domains) ==
    IF domains = {} THEN 0
    ELSE LET d == CHOOSE x \in domains : TRUE
         IN stats[d][field] + SumOver(stats, field, domains \ {d})

permits_granted == SumOver(domain_stats, "total_requests", Domains)

results_recorded ==
    SumOver(domain_stats, "success_count", Domains) + SumOver(domain_stats, "error_count", Domains)

\* AdaptiveRateLimiter.acquire_permit(url) for a URL of the domain
acquire_permit(domain) ==
    LET stats == domain_stats[domain]
        required_delay == calculate_adaptive_delay(domain, stats)
    IN /\ permits_granted < MaxRequests
       /\ IF permit_due(now, stats, required_delay)
          THEN domain_stats' = [domain_stats EXCEPT
                                  ![domain].last_request_time = now,
                                  ![domain].total_requests = @ + 1]
          ELSE UNCHANGED domain_stats
       /\ UNCHANGED now

\* rate limiting seen in the status code alone
rate_limiting_by_status(status_code, consecutive_errors) ==
    status_code \in {429, 503, 502}

\* status_code in [429, 503, 502] or stats['consecutive_errors'] >= 3
rate_limiting_detected(status_code, consecutive_errors) ==
    status_code \in {429, 503, 502} \/ consecutive_errors >= 3

\* the domain's stats as record_request_result leaves them
recorded_stats(stats, success, response_time, status_code) ==
    LET errors == stats.consecutive_errors + 1
        total_responses == stats.success_count + stats.error_count + 1
        counted ==
            IF success
            THEN [stats EXCEPT !.success_count = @ + 1,
                               !.consecutive_errors = 0,
                               !.rate_limit_detected = FALSE]
            ELSE [stats EXCEPT !.error_count = @ + 1,
                               !.consecutive_errors = errors,
                               !.rate_limit_detected =
                                   IF rate_limiting_detected(status_code, errors)
                                   THEN TRUE ELSE @]
    IN [counted EXCEPT !.avg_response_time =
           IF total_responses > 1
           THEN (stats.avg_response_time * (total_responses - 1) + response_time)
                   \div total_responses
           ELSE response_time]

\* AdaptiveRateLimiter.record_request_result(url, success, response_time, status_code)
record_request_result(domain, success, response_time, status_code) ==
    /\ results_recorded < MaxResponses
    /\ domain_stats' =
          [domain_stats EXCEPT ![domain] =
              recorded_stats(domain_stats[domain], success, response_time, status_code)]
    /\ UNCHANGED now

\* the outcomes a caller reports: success and the status code
RequestOutcomes ==
    {<<TRUE, 200>>, <<FALSE, 404>>, <<FALSE, 429>>, <<FALSE, 500>>, <<FALSE, 502>>,
     <<FALSE, 503>>}

MaxHistory == 3

\* the stats of a domain after at most n recorded results
RECURSIVE StatsAfter(_)
StatsAfter(n) ==
    IF n = 0 THEN {DomainDefaults}
    ELSE StatsAfter(n - 1)
         \cup {recorded_stats(stats, outcome[1], 20, outcome[2]) :
                  stats \in StatsAfter(n - 1), outcome \in RequestOutcomes}

\* wall-clock time passes
AdvanceTime(step) ==
    /\ now + step <= MaxNow
    /\ now' = now + step
    /\ UNCHANGED domain_stats

----------------------------------------------------------------------------
(* IntelligentTaskScheduler.  A task is a record of the ScrapingTask        *)
(* fields the scheduler reads; the queues hold tasks by their index in      *)
(* `tasks`, the objects the caller handed over (schedule_tasks writes their *)
(* priority field).  Probabilities are held in hundredths.                  *)

\* ScrapingPriority: CRITICAL = 1 .. BACKGROUND = 5
Priorities == 1..5

\* any(domain in task.url.lower() ...) over 'mayo', 'cleveland', 'hopkins',
\* 'harvard', 'stanford', 'who', 'nih', 'cdc'
quality_domain_in(url) ==
    url \in {"https://www.cdc.gov/flu", "https://www.who.int/health-topics/",
             "https://www.mayoclinic.org/diseases-conditions/",
             "https://example.org/whooping-cough"}

\* the tasks offered to the scheduler
TaskPool ==
    {[tier |-> "government", url |-> "https://www.cdc.gov/flu", priority |-> 4,
      success_probability |-> 80, estimated_processing_time |-> 30,
      content_quality_score |-> 5, created_at |-> 0],
     [tier |-> "international", url |-> "https://www.nhs.uk/conditions/", priority |-> 3,
      success_probability |-> 80, estimated_processing_time |-> 10,
      content_quality_score |-> 5, created_at |-> 0],
     [tier |-> "apis", url |-> "https://api.example.org/v1", priority |-> 3,
      success_probability |-> 50, estimated_processing_time |-> 10,
      content_quality_score |-> 0, created_at |-> 0],
     [tier |-> "academic", url |-> "https://www.mayoclinic.org/diseases-conditions/",
      priority |-> 2,
      success_probability |-> 80, estimated_processing_time |-> 30,
      content_quality_score |-> 0, created_at |-> 0],
     [tier |-> "journals", url |-> "https://example.org/whooping-cough", priority |-> 5,
      success_probability |-> 80, estimated_processing_time |-> 10,
      content_quality_score |-> 0, created_at |-> 0],
     [tier |-> "journals", url |-> "https://example.org/page", priority |-> 1,
      success_probability |-> 80, estimated_processing_time |-> 30,
      content_quality_score |-> 0, created_at |-> 0],
     [tier |-> "journals", url |-> "https://example.org/page", priority |-> 1,
      success_probability |-> 80, estimated_processing_time |-> 30,
      content_quality_score |-> 0, created_at |-> 1],
     [tier |-> "journals", url |-> "https://example.org/page", priority |-> 5,
      success_probability |-> 80, estimated_processing_time |-> 30,
      content_quality_score |-> 0, created_at |-> 0]}

MaxTasks == 4

\* the task lists a caller may hand to schedule_tasks
TaskLists == UNION {[1..n -> TaskPool] : n \in 0..MaxTasks}

\* IntelligentTaskScheduler._analyze_task_priority(task)
analyze_task_priority(task) ==
    IF task.tier \in {"government", "international"} /\ task.priority > 2 THEN 2
    ELSE IF quality_domain_in(task.url) /\ task.priority > 3 THEN 3
    ELSE IF task.tier = "apis" /\ task.priority > 2 THEN 2
    ELSE task.priority

\* a key that puts the lower success probability first
sort_key_ascending(a, b) ==
    \/ a.success_probability < b.success_probability
    \/ /\ a.success_probability = b.success_probability
       /\ \/ a.estimated_processing_time < b.estimated_processing_time
          \/ /\ a.estimated_processing_time = b.estimated_processing_time
             /\ \/ a.content_quality_score > b.content_quality_score
                \/ /\ a.content_quality_score = b.content_quality_score
                   /\ a.created_at < b.created_at

\* sort_key(a) < sort_key(b): tuples compare lexicographically
sort_key_less(a, b) ==
    \/ a.success_probability > b.success_probability
    \/ /\ a.success_probability = b.success_probability
       /\ \/ a.estimated_processing_time < b.estimated_processing_time
          \/ /\ a.estimated_processing_time = b.estimated_processing_time
             /\ \/ a.content_quality_score > b.content_quality_score
                \/ /\ a.content_quality_score = b.content_quality_score
                   /\ a.created_at < b.created_at

\* x placed into an ordered queue behind every task that does not sort after it
RECURSIVE insert_ordered(_, _, _)
insert_ordered(ts, queue, x) ==
    IF queue = <<>> THEN <<x>>
    ELSE IF sort_key_less(ts[x], ts[Head(queue)]) THEN <<x>> \o queue
    ELSE <<Head(queue)>> \o insert_ordered(ts, Tail(queue), x)

\* sorted(tasks, key=sort_key): the sort is stable
RECURSIVE optimize_queue_order(_, _)
optimize_queue_order(ts, queue) ==
    IF queue = <<>> THEN <<>>
    ELSE insert_ordered(ts, optimize_queue_order(ts, SubSeq(queue, 1, Len(queue) - 1)),
                        queue[Len(queue)])

\* the tasks whose priority is p or more urgent, in list order
RECURSIVE tasks_up_to_priority(_, _, _)
tasks_up_to_priority(ts, p, i) ==
    IF i > Len(ts) THEN <<>>
    ELSE (IF ts[i].priority <= p THEN <<i>> ELSE <<>>) \o tasks_up_to_priority(ts, p, i + 1)

\* the indices of ts, in order, whose task has priority p
RECURSIVE tasks_of_priority(_, _, _)
tasks_of_priority(ts, p, i) ==
    IF i > Len(ts) THEN <<>>
    ELSE (IF ts[i].priority = p THEN <<i>> ELSE <<>>) \o tasks_of_priority(ts, p, i + 1)

\* IntelligentTaskScheduler.schedule_tasks(tasks)
schedule_tasks ==
    LET adjusted == [i \in 1..Len(tasks) |->
                        [tasks[i] EXCEPT !.priority = analyze_task_priority(tasks[i])]]
    IN /\ tasks' = adjusted
       /\ task_queues' = [p \in Priorities |->
                             optimize_queue_order(adjusted, tasks_of_priority(adjusted, p, 1))]
       /\ next_batch' = None

\* priority_allocation, in tenths
priority_allocation(p) ==
    CASE p = 1 -> 4
      [] p = 2 -> 3
      [] p = 3 -> 2
      [] p = 4 -> 1
      [] OTHER -> 0

\* count = int(batch_size * allocation)
allocation_count(batch_size, p) == (batch_size * priority_allocation(p)) \div 10

\* tasks popped from a queue by `while len(batch) < len(batch) + count and queue`
proportional_take(queue, count) == IF 0 < count THEN Len(queue) ELSE 0

\* the first loop of get_next_batch from priority p on, appended to batch
RECURSIVE proportional_phase(_, _, _, _)
proportional_phase(queues, batch_size, p, taken) ==
    IF p > 5 THEN [taken |-> taken, queues |-> queues]
    ELSE LET k == proportional_take(queues[p], allocation_count(batch_size, p))
         IN proportional_phase(
                [queues EXCEPT ![p] = SubSeq(@, k + 1, Len(@))], batch_size, p + 1,
                taken \o SubSeq(queues[p], 1, k))

\* a second loop that leaves the queue alone
fill_nothing(queue, remaining_slots) == 0

\* tasks popped from a queue by `while remaining_slots > 0 and queue`
fill_take(queue, remaining_slots) ==
    IF remaining_slots > 0 THEN Min(remaining_slots, Len(queue)) ELSE 0

\* the second loop of get_next_batch from priority p on
RECURSIVE fill_phase(_, _, _, _)
fill_phase(queues, remaining_slots, p, taken) ==
    IF p > 5 THEN [taken |-> taken, queues |-> queues]
    ELSE LET k == fill_take(queues[p], remaining_slots)
         IN fill_phase(
                [queues EXCEPT ![p] = SubSeq(@, k + 1, Len(@))], remaining_slots - k, p + 1,
                taken \o SubSeq(queues[p], 1, k))

BatchSizes == {0, 3, 10}

\* IntelligentTaskScheduler.get_next_batch(batch_size)
get_next_batch(batch_size) ==
    LET proportional == proportional_phase(task_queues, batch_size, 1, <<>>)
        filled == fill_phase(proportional.queues, batch_size - Len(proportional.taken), 1,
                             proportional.taken)
    IN /\ task_queues' = filled.queues
       /\ next_batch' = Some([batch_size |-> batch_size, returned |-> filled.taken])
       /\ UNCHANGED tasks

----------------------------------------------------------------------------
(* AdvancedDeduplicator.  A URL is held in the parts urlparse and the two   *)
(* substitutions of _extract_url_pattern tell apart: the netloc, the path   *)
(* segments (a text, a run of digits, a run of digits followed by text, or  *)
(* "page=" and digits), trailing slashes, and the query string.             *)

text_segment(text) == [kind |-> "text", text |-> text, digits |-> None]
number_segment(digits) == [kind |-> "number", text |-> "", digits |-> Some(digits)]
number_text_segment(digits, text) == [kind |-> "number", text |-> text, digits |-> Some(digits)]
page_segment(digits) == [kind |-> "page", text |-> "", digits |-> Some(digits)]

\* the URLs handed to the deduplicator
DedupUrls ==
    {\* https://www.cdc.gov/flu/articles/123
     [netloc |-> "www.cdc.gov",
      path |-> <<text_segment("flu"), text_segment("articles"), number_segment(123)>>,
      trailing_slash |-> FALSE, query |-> None],
     \* https://www.cdc.gov/flu/articles/456
     [netloc |-> "www.cdc.gov",
      path |-> <<text_segment("flu"), text_segment("articles"), number_segment(456)>>,
      trailing_slash |-> FALSE, query |-> None],
     \* https://www.cdc.gov/flu/list?page=3
     [netloc |-> "www.cdc.gov",
      path |-> <<text_segment("flu"), text_segment("list")>>,
      trailing_slash |-> FALSE, query |-> Some([name |-> "page", value |-> "3"])],
     \* https://www.cdc.gov/flu/list?page=7
     [netloc |-> "www.cdc.gov",
      path |-> <<text_segment("flu"), text_segment("list")>>,
      trailing_slash |-> FALSE, query |-> Some([name |-> "page", value |-> "7"])],
     \* https://www.cdc.gov/flu/list/?topic=symptoms
     [netloc |-> "www.cdc.gov",
      path |-> <<text_segment("flu"), text_segment("list")>>,
      trailing_slash |-> TRUE, query |-> Some([name |-> "topic", value |-> "symptoms"])],
     \* https://www.cdc.gov/flu/2024-report
     [netloc |-> "www.cdc.gov",
      path |-> <<text_segment("flu"), number_text_segment(2024, "-report")>>,
      trailing_slash |-> FALSE, query |-> None],
     \* https://www.cdc.gov/flu/page=3
     [netloc |-> "www.cdc.gov",
      path |-> <<text_segment("flu"), page_segment(3)>>,
      trailing_slash |-> FALSE, query |-> None],
     \* https://www.who.int/flu/articles/123
     [netloc |-> "www.who.int",
      path |-> <<text_segment("flu"), text_segment("articles"), number_segment(123)>>,
      trailing_slash |-> FALSE, query |-> None]}

\* the page contents handed to the deduplicator
DedupContents == {"<html>influenza</html>", "<html>measles</html>", ""}

\* hashlib.md5(content.encode()).hexdigest()
content_hash(content) == <<"md5", content>>

\* re.sub(r'/\d+', '/[ID]', ...) then re.sub(r'page=\d+', 'page=[NUM]', ...)
\* on one segment of the path
pattern_segment(segment) ==
    CASE segment.kind = "number" -> [kind |-> "text", text |-> "[ID]", rest |-> segment.text]
      [] segment.kind = "page" -> [kind |-> "text", text |-> "page=[NUM]", rest |-> ""]
      [] OTHER -> [kind |-> "text", text |-> segment.text, rest |-> ""]

\* a pattern that keeps the digits of the path
pattern_with_digits(url) ==
    [netloc |-> url.netloc, path |-> url.path]

\* AdvancedDeduplicator._extract_url_pattern(url): parsed.path without
\* trailing slashes, query and fragment dropped, digits replaced
extract_url_pattern(url) ==
    [netloc |-> url.netloc,
     path |-> [i \in 1..Len(url.path) |-> pattern_segment(url.path[i])]]

\* a check that does not record the content hash
is_duplicate_without_hash(content, url) ==
    LET url_pattern == extract_url_pattern(url)
        duplicate == content_hash(content) \in content_hashes \/ url_pattern \in url_patterns
        recorded == IF call = None THEN {} ELSE call[1].recorded
        accepted == IF call = None THEN {} ELSE call[1].accepted
    IN /\ content_hashes' = content_hashes
       /\ url_patterns' = IF duplicate THEN url_patterns ELSE url_patterns \cup {url_pattern}
       /\ call' = Some([method |-> "is_duplicate", content |-> content, url |-> url,
                        returned |-> duplicate,
                        recorded |-> IF duplicate THEN recorded ELSE recorded \cup {url},
                        accepted |-> IF duplicate THEN accepted ELSE accepted \cup {content}])

\* a check that records the signatures whatever it returns
is_duplicate_always_recording(content, url) ==
    LET url_pattern == extract_url_pattern(url)
        duplicate == content_hash(content) \in content_hashes \/ url_pattern \in url_patterns
        recorded == IF call = None THEN {} ELSE call[1].recorded
        accepted == IF call = None THEN {} ELSE call[1].accepted
    IN /\ content_hashes' = content_hashes \cup {content_hash(content)}
       /\ url_patterns' = url_patterns \cup {url_pattern}
       /\ call' = Some([method |-> "is_duplicate", content |-> content, url |-> url,
                        returned |-> duplicate,
                        recorded |-> IF duplicate THEN recorded ELSE recorded \cup {url},
                        accepted |-> IF duplicate THEN accepted ELSE accepted \cup {content}])

\* AdvancedDeduplicator.is_duplicate(content, url); `recorded` and `accepted`
\* keep the URLs and the contents of the calls that returned False
\* (_is_similar_content and _is_duplicate_by_metadata always return False)
is_duplicate(content, url) ==
    LET url_pattern == extract_url_pattern(url)
        duplicate == content_hash(content) \in content_hashes \/ url_pattern \in url_patterns
        recorded == IF call = None THEN {} ELSE call[1].recorded
        accepted == IF call = None THEN {} ELSE call[1].accepted
    IN /\ content_hashes' = IF duplicate THEN content_hashes
                            ELSE content_hashes \cup {content_hash(content)}
       /\ url_patterns' = IF duplicate THEN url_patterns ELSE url_patterns \cup {url_pattern}
       /\ call' = Some([method |-> "is_duplicate", content |-> content, url |-> url,
                        returned |-> duplicate,
                        recorded |-> IF duplicate THEN recorded ELSE recorded \cup {url},
                        accepted |-> IF duplicate THEN accepted ELSE accepted \cup {content}])

----------------------------------------------------------------------------
(* A run across the tiers: launch_super_parallel_extraction                *)
(* (super_parallel_engine.py) and execute_massive_scraping_operation       *)
(* (master_scraper_controller.py).  The work of one tier is abstracted to  *)
(* its outcome: the counts of the dict it returns, or an exception.        *)

\* processed and successful documents of a tier that ran to completion
TierCounts ==
    {[processed_count |-> 0, success_count |-> 0],
     [processed_count |-> 2, success_count |-> 1],
     [processed_count |-> 3, success_count |-> 3]}

\* what asyncio.gather(*tasks, return_exceptions=True) holds for a tier
absent_task ==
    [state |-> "absent", processed_count |-> 0, success_count |-> 0,
     error_count |-> 0, error |-> FALSE]

running_task == [absent_task EXCEPT !.state = "running"]

\* the dict returned by _process_tier_super_parallel
tier_dict(counts) ==
    [state |-> "dict", processed_count |-> counts.processed_count,
     success_count |-> counts.success_count, error_count |-> 0, error |-> FALSE]

\* the exception object gather keeps in place of the tier's result
tier_exception == [absent_task EXCEPT !.state = "exception"]

\* the tier_summary built by _execute_tier_scraping after scrape_complete_tier
tier_summary(counts) ==
    [state |-> "dict", processed_count |-> counts.processed_count,
     success_count |-> counts.success_count,
     error_count |-> counts.processed_count - counts.success_count,
     error |-> FALSE]

\* the dict returned by the except branch of _execute_tier_scraping
tier_error_summary ==
    [state |-> "dict", processed_count |-> 0, success_count |-> 0,
     error_count |-> 1, error |-> TRUE]

\* the tiers kept only when no tier raised
summarised_tiers_unless_raised(gathered) ==
    IF \E t \in EngineTiers : gathered[t].state = "exception"
    THEN {}
    ELSE {t \in EngineTiers : gathered[t].state = "dict"}

\* the entries that pass isinstance(tier_result, dict) and 'tier' in tier_result
summarised_tiers(gathered) ==
    {t \in EngineTiers : gathered[t].state = "dict"}

\* sum of a count over the summarised tiers
total_of(gathered, field) ==
    LET part(t) == IF t \in summarised_tiers(gathered) THEN gathered[t][field] ELSE 0
    IN part("government") + part("international") + part("academic")

\* _compile_super_parallel_results / _process_final_results
compiled_results(gathered) ==
    [tier_results |->
         {[tier |-> t, processed_count |-> gathered[t].processed_count,
           success_count |-> gathered[t].success_count,
           error_count |-> gathered[t].error_count,
           error |-> gathered[t].error] : t \in summarised_tiers(gathered)},
     total_processed |-> total_of(gathered, "processed_count"),
     total_success |-> total_of(gathered, "success_count"),
     total_errors |-> total_of(gathered, "error_count")]

\* the loop left by an exception of one iteration
monitoring_error_raised(task) == [task EXCEPT !.state = "finished", !.failed = TRUE]

\* except Exception: log, await asyncio.sleep(5), next iteration
monitoring_error_handled(task) == [task EXCEPT !.state = "recovering", !.failed = TRUE]

\* launch_super_parallel_extraction up to the await of asyncio.gather: the
\* monitoring task and one task per tier are created; with no tier the gather
\* is done at once and the monitoring task is cancelled before it ever ran
launch_super_parallel_extraction(tier_scrapers) ==
    /\ run_pc = "idle"
    /\ runner' = "engine"
    /\ tier_tasks' = [t \in EngineTiers |->
                         IF t \in tier_scrapers THEN running_task ELSE absent_task]
    /\ IF tier_scrapers = {}
       THEN /\ monitoring_task' = [monitoring_task EXCEPT !.state = "finished"]
            /\ run_pc' = "compiling"
       ELSE /\ monitoring_task' = [monitoring_task EXCEPT !.state = "pending"]
            /\ run_pc' = "gathering"
    /\ UNCHANGED <<final_results, metrics>>

\* execute_massive_scraping_operation up to the await of asyncio.gather
execute_massive_scraping_operation(target_tiers) ==
    /\ run_pc = "idle"
    /\ runner' = "controller"
    /\ tier_tasks' = [t \in EngineTiers |->
                         IF t \in target_tiers THEN running_task ELSE absent_task]
    /\ run_pc' = IF target_tiers = {} THEN "compiling" ELSE "gathering"
    /\ UNCHANGED <<monitoring_task, final_results, metrics>>

\* _process_tier_super_parallel returns its dict
TierProcessed(t, counts) ==
    /\ runner = "engine"
    /\ run_pc = "gathering"
    /\ tier_tasks[t].state = "running"
    /\ tier_tasks' = [tier_tasks EXCEPT ![t] = tier_dict(counts)]
    /\ UNCHANGED <<runner, run_pc, monitoring_task, final_results, metrics>>

\* _process_tier_super_parallel raises: nothing in it catches
TierRaised(t) ==
    /\ runner = "engine"
    /\ run_pc = "gathering"
    /\ tier_tasks[t].state = "running"
    /\ tier_tasks' = [tier_tasks EXCEPT ![t] = tier_exception]
    /\ UNCHANGED <<runner, run_pc, monitoring_task, final_results, metrics>>

\* _execute_tier_scraping: scrape_complete_tier returns, or raises and is caught
execute_tier_scraping(t) ==
    /\ runner = "controller"
    /\ run_pc = "gathering"
    /\ tier_tasks[t].state = "running"
    /\ \/ \E counts \in TierCounts :
             tier_tasks' = [tier_tasks EXCEPT ![t] = tier_summary(counts)]
       \/ tier_tasks' = [tier_tasks EXCEPT ![t] = tier_error_summary]
    /\ UNCHANGED <<runner, run_pc, monitoring_task, final_results, metrics>>

\* one iteration of _continuous_performance_monitoring, from waking up to the
\* next asyncio.sleep(5): the sample is stored, or the reading raises before
\* anything is stored, or the alert logging raises after the sample is stored
MonitoringIteration ==
    /\ monitoring_task.state \in {"pending", "sleeping", "recovering"}
    /\ \/ /\ \E cpu \in CpuReadings, mem \in MemReadings :
                metrics' = [metrics EXCEPT !.cpu_usage_percent = cpu,
                                           !.memory_usage_mb = mem]
          /\ \/ monitoring_task' = [monitoring_task EXCEPT !.state = "sleeping"]
             \/ monitoring_task' = monitoring_error_handled(monitoring_task)
       \/ /\ metrics' = metrics
          /\ monitoring_task' = monitoring_error_handled(monitoring_task)
    /\ UNCHANGED <<runner, run_pc, tier_tasks, final_results>>

\* the gather is done: finally: monitoring_task.cancel(); await monitoring_task
GatherDone ==
    /\ run_pc = "gathering"
    /\ \A t \in EngineTiers : tier_tasks[t].state # "running"
    /\ run_pc' = "compiling"
    /\ monitoring_task' =
          IF monitoring_task.state \in {"pending", "sleeping", "recovering"}
          THEN [monitoring_task EXCEPT !.state = "cancelling"]
          ELSE monitoring_task
    /\ UNCHANGED <<runner, tier_tasks, final_results, metrics>>

\* CancelledError reaches the loop at its await: break, or out of the handler
MonitoringCancelled ==
    /\ monitoring_task.state = "cancelling"
    /\ monitoring_task' = [monitoring_task EXCEPT !.state = "finished"]
    /\ UNCHANGED <<runner, run_pc, tier_tasks, final_results, metrics>>

\* the results are compiled and returned
RunReturned ==
    /\ run_pc = "compiling"
    /\ monitoring_task.state \in {"none", "finished"}
    /\ final_results' = Some(compiled_results(tier_tasks))
    /\ run_pc' = "returned"
    /\ UNCHANGED <<runner, tier_tasks, monitoring_task, metrics>>

\* _compile_super_parallel_results: the final monitor_real_time_performance raises
RunRaised ==
    /\ runner = "engine"
    /\ run_pc = "compiling"
    /\ monitoring_task.state \in {"none", "finished"}
    /\ run_pc' = "raised"
    /\ UNCHANGED <<runner, tier_tasks, monitoring_task, final_results, metrics>>

----------------------------------------------------------------------------
(* Initial states                                                          *)

\* a freshly constructed DynamicLoadBalancer and ProcessingMetrics
InitBalancer ==
    /\ tier_performance = [t \in Tiers |-> TierDefaults]
    /\ metrics = [cpu_usage_percent |-> 0, memory_usage_mb |-> 0,
                  tasks_completed |-> 0, tasks_failed |-> 0]
    /\ lb_return = None
    /\ lb_updates = 0

\* the module globals of medical_scraper_api.py at import time
InitApi ==
    /\ phase1_system = FALSE
    /\ phase1_config = Phase1Defaults
    /\ current_operation = None
    /\ background = <<>>
    /\ response = [call |-> "none", status |-> 0]
    /\ clock = 0

\* a freshly constructed AdaptiveRateLimiter; time.time() lies far beyond any delay
InitLimiter ==
    /\ domain_stats = [d \in Domains |-> DomainDefaults]
    /\ now = 1000

\* a freshly constructed IntelligentTaskScheduler
InitScheduler ==
    /\ tasks = <<>>
    /\ task_queues = [p \in Priorities |-> <<>>]
    /\ next_batch = None

\* no pure method has been called
InitCalls == call = None

\* no run has been launched
InitRun ==
    /\ runner = "none"
    /\ run_pc = "idle"
    /\ tier_tasks = [t \in EngineTiers |-> absent_task]
    /\ monitoring_task = [state |-> "none", failed |-> FALSE]
    /\ final_results = None

\* the two workers of the deduplicator model
Workers == {1, 2}

\* no worker is inside extract_content_from_url
InitNoWorkers ==
    /\ worker_pc = [w \in Workers |-> "none"]
    /\ worker_input = [w \in Workers |-> None]
    /\ worker_returned = [w \in Workers |-> None]
    /\ loop_task = None

\* no tier is being processed
InitIdle ==
    /\ tier_pc = "idle"
    /\ urls = 0
    /\ batch = [first |-> 1, size |-> 0]
    /\ tier_semaphore = 0
    /\ scraper_semaphore = max_concurrent(tier)
    /\ pc = <<>>
    /\ attempt = <<>>
    /\ retry_count = <<>>
    /\ held = <<>>
    /\ fetches = <<>>
    /\ last_error = <<>>
    /\ results = <<>>
    /\ failures_left = 0
    /\ content_hashes = {}
    /\ url_patterns = {}

\* the system as an accepted Start with the given request leaves it, its
\* background run having begun to execute
Started(request) ==
    /\ phase1_system = TRUE
    /\ phase1_config =
          [target_documents |-> request.target_documents,
           max_concurrent_workers |-> request.max_concurrent_workers,
           quality_threshold |-> request.quality_threshold]
    /\ current_operation =
          Some([operation_id |-> 0, status |-> "running", config |-> request,
                progress |-> [total_processed |-> 0, successful |-> 0,
                              failed |-> 0, current_tier |-> "executing"]])
    /\ background = <<[operation_id |-> 0, pc |-> "executing"]>>
    /\ response = [call |-> "start_comprehensive_scraping", status |-> 200,
                   request |-> request]
    /\ clock = 0

----------------------------------------------------------------------------
(* The control surface                                                     *)

otherThanApi == <<lbVars, engineVars, limiterVars, schedVars, callVars, runVars, workerVars>>

NextApi ==
    \/ \E request \in ScrapingRequest :
          start_comprehensive_scraping(request) /\ UNCHANGED otherThanApi
    \/ \E request \in ScrapingRequest :
          start_medical_extraction(request) /\ UNCHANGED otherThanApi
    \/ stop_extraction /\ UNCHANGED otherThanApi
    \/ \E i \in 1..Len(background) : run_extraction_begin(i) /\ UNCHANGED otherThanApi
    \/ \E i \in 1..Len(background), processed \in {0, 2}, success \in {0, 2} :
          /\ success <= processed
          /\ run_extraction_completed(i, processed, success)
          /\ UNCHANGED otherThanApi
    \/ \E i \in 1..Len(background) : run_extraction_failed(i) /\ UNCHANGED otherThanApi
    \/ Tick /\ UNCHANGED otherThanApi

vars == <<lbVars, apiVars, engineVars, limiterVars, schedVars, callVars, runVars, workerVars>>

\* the process after import, before any request
InitSpecApi ==
    /\ InitBalancer /\ InitApi /\ InitLimiter /\ tier = "government" /\ InitIdle
    /\ InitScheduler /\ InitCalls /\ InitRun /\ InitNoWorkers

SpecApi == InitSpecApi /\ [][NextApi]_vars

----------------------------------------------------------------------------
(* The load balancer of one tier under arbitrary signals                   *)

\* the statistics update_tier_performance converges to under failures only
\* (response time 0) and under successes only (response times of 0.2 s)
SaturatedFailureStats ==
    [avg_response_time |-> 0, success_rate |-> 0,
     current_load |-> 0, optimal_concurrency |-> 50]

SaturatedSuccessStats ==
    [avg_response_time |-> 20, success_rate |-> 9991,
     current_load |-> 0, optimal_concurrency |-> 50]

otherThanBalancer == <<apiVars, engineVars, limiterVars, schedVars, callVars, runVars, workerVars>>

NextBalancer ==
    \/ MonitorSample /\ UNCHANGED otherThanBalancer
    \/ calculate_optimal_concurrency(tier) /\ UNCHANGED otherThanBalancer
    \/ \E response_time \in ResponseTimes, success \in BOOLEAN :
          update_tier_performance(tier, response_time, success, 0)
             /\ UNCHANGED otherThanBalancer

\* the load balancer of a started run, for one of the tiers
InitSpecBalancer ==
    /\ InitLimiter /\ tier \in Tiers /\ InitIdle
    /\ InitScheduler /\ InitCalls /\ InitRun /\ InitNoWorkers
    /\ \E stats \in {TierDefaults, SaturatedFailureStats, SaturatedSuccessStats} :
          tier_performance = [t \in Tiers |-> IF t = tier THEN stats ELSE TierDefaults]
    /\ metrics = [cpu_usage_percent |-> 0, memory_usage_mb |-> 0,
                  tasks_completed |-> 0, tasks_failed |-> 0]
    /\ lb_return = None
    /\ lb_updates = 0
    /\ \E workers \in WorkerCounts :
          Started([target_documents |-> Some(1), max_concurrent_workers |-> workers,
                   quality_threshold |-> None])

SpecBalancer == InitSpecBalancer /\ [][NextBalancer]_vars

----------------------------------------------------------------------------
(* The rate limiter                                                        *)

otherThanLimiter == <<lbVars, apiVars, engineVars, schedVars, callVars, runVars, workerVars>>

NextLimiter ==
    \/ \E domain \in Domains : acquire_permit(domain) /\ UNCHANGED otherThanLimiter
    \/ \E domain \in Domains, success \in BOOLEAN, response_time \in {20, 1200},
          status_code \in {200, 404, 503} :
          /\ success <=> status_code = 200
          /\ record_request_result(domain, success, response_time, status_code)
          /\ UNCHANGED otherThanLimiter
    \/ \E step \in TimeSteps : AdvanceTime(step) /\ UNCHANGED otherThanLimiter

\* a fresh rate limiter in an otherwise idle process
InitSpecLimiter ==
    /\ InitBalancer /\ InitApi /\ InitLimiter /\ tier = "government" /\ InitIdle
    /\ InitScheduler /\ InitCalls /\ InitRun /\ InitNoWorkers

SpecLimiter == InitSpecLimiter /\ [][NextLimiter]_vars

----------------------------------------------------------------------------
(* One tier of a launched run                                              *)

MaxConcurrent == 2

MaxFailures == 5

\* tier statistics after seven 30-second successes followed by five failures
DegradedStats ==
    [avg_response_time |-> 1062, success_rate |-> 5337,
     current_load |-> 0, optimal_concurrency |-> 50]

InitEngine ==
    /\ InitLimiter
    /\ InitScheduler /\ InitCalls /\ InitRun /\ InitNoWorkers
    /\ lb_return = None
    /\ lb_updates = 0
    /\ tier \in EngineTiers
    /\ tier_pc = "init"
    /\ urls = 0
    /\ batch = [first |-> 1, size |-> 0]
    /\ tier_semaphore = 0
    /\ pc = <<>>
    /\ attempt = <<>>
    /\ retry_count = <<>>
    /\ held = <<>>
    /\ fetches = <<>>
    /\ last_error = <<>>
    /\ results = <<>>
    /\ \/ /\ tier_performance = [t \in Tiers |-> TierDefaults]
          /\ \E cpu \in {0, 95} :
                metrics = [cpu_usage_percent |-> cpu, memory_usage_mb |-> 0,
                           tasks_completed |-> 0, tasks_failed |-> 0]
          /\ Started([target_documents |-> Some(9), max_concurrent_workers |-> Some(1000),
                      quality_threshold |-> None])
          /\ scraper_semaphore = MaxConcurrent    \* TierScraperBase(tier, MaxConcurrent)
          /\ failures_left = MaxFailures
          /\ \E seen \in {{}, {1}} : content_hashes = seen /\ url_patterns = seen
       \/ /\ tier = "international"
          /\ tier_performance = [t \in Tiers |-> IF t = tier THEN DegradedStats ELSE TierDefaults]
          /\ metrics = [cpu_usage_percent |-> 95, memory_usage_mb |-> 0,
                        tasks_completed |-> 0, tasks_failed |-> 0]
          /\ Started([target_documents |-> Some(36), max_concurrent_workers |-> Some(1000),
                      quality_threshold |-> None])
          /\ scraper_semaphore = max_concurrent(tier)
          /\ failures_left = 0
          /\ content_hashes = {}
          /\ url_patterns = {}

\* run_extraction_background once the launch has returned its summary
EngineRunCompleted ==
    /\ tier_pc = "done"
    /\ Len(background) > 0
    /\ run_extraction_completed(1, urls,
          Cardinality({u \in 1..urls : results[u] # None /\ results[u][1].success}))

otherThanTier == <<apiVars, limiterVars, lb_updates, schedVars, callVars, runVars, workerVars>>

NextEngine ==
    \/ TierStart /\ UNCHANGED otherThanTier
    \/ \E u \in 1..urls : AcquireSlot(u) /\ UNCHANGED otherThanTier
    \/ \E u \in 1..urls : AcquireScraper(u) /\ UNCHANGED otherThanTier
    \/ \E u \in 1..urls : FetchOk(u) /\ UNCHANGED otherThanTier
    \/ \E u \in 1..urls, status \in HttpErrorStatuses :
          FetchHttpError(u, status) /\ UNCHANGED otherThanTier
    \/ \E u \in 1..urls, text \in ExceptionTexts :
          FetchRaise(u, text) /\ UNCHANGED otherThanTier
    \/ \E u \in 1..urls : InnerBackoffDone(u) /\ UNCHANGED otherThanTier
    \/ \E u \in 1..urls : OuterBackoffDone(u) /\ UNCHANGED otherThanTier
    \/ BatchDone /\ UNCHANGED otherThanTier
    \/ stop_extraction /\ UNCHANGED otherThanApi
    \/ EngineRunCompleted /\ UNCHANGED otherThanApi

SpecEngine == InitEngine /\ [][NextEngine]_vars

----------------------------------------------------------------------------
(* Direct calls of the side-effect free methods                            *)

otherThanCalls == <<lbVars, apiVars, engineVars, limiterVars, schedVars, runVars, workerVars>>

\* the calls a caller may make: the method and its arguments, nothing returned yet
PendingCalls ==
    [method : {"should_retry"}, tier : Tiers, error : RetryErrors,
     attempt_number : AttemptNumbers, returned : {None}]
    \cup [method : {"calculate_retry_delay"}, tier : Tiers, error : RetryErrors,
          attempt_number : AttemptNumbers, draw : JitterDraws, returned : {None}]
    \cup [method : {"record_request_result"}, stats : StatsAfter(MaxHistory),
          outcome : RequestOutcomes, response_time : {20, 1200}, returned : {None}]
    \cup [method : {"calculate_adaptive_delay"}, domain : DelayDomains,
          stats : DelayStats, returned : {None}]
    \cup [method : {"update_tier_performance"}, tier : Tiers,
          stats : {TierDefaults, SaturatedFailureStats, SaturatedSuccessStats,
                   DegradedStats},
          response_time : ResponseTimes, success : BOOLEAN,
          current_load : {0, 3}, returned : {None}]

\* await retry_system.should_retry(task, error, attempt_number)
call_should_retry ==
    /\ call # None
    /\ call[1].method = "should_retry"
    /\ call[1].returned = None
    /\ call' = Some([call[1] EXCEPT !.returned =
                        Some(should_retry(call[1].tier, call[1].error.error_str,
                                          call[1].attempt_number))])

\* await retry_system.calculate_retry_delay(task, attempt_number, error)
call_calculate_retry_delay ==
    /\ call # None
    /\ call[1].method = "calculate_retry_delay"
    /\ call[1].returned = None
    /\ call' = Some([call[1] EXCEPT !.returned =
                        Some(calculate_retry_delay(call[1].tier, call[1].attempt_number,
                                                   call[1].error.error_str, call[1].draw))])

\* rate_limiter.record_request_result(url, success, response_time, status_code)
\* on a domain whose stats are call[1].stats
call_record_request_result ==
    /\ call # None
    /\ call[1].method = "record_request_result"
    /\ call[1].returned = None
    /\ call' = Some([call[1] EXCEPT !.returned =
                        Some(recorded_stats(call[1].stats, call[1].outcome[1],
                                            call[1].response_time, call[1].outcome[2]))])

\* await self._calculate_adaptive_delay(domain, stats)
call_calculate_adaptive_delay ==
    /\ call # None
    /\ call[1].method = "calculate_adaptive_delay"
    /\ call[1].returned = None
    /\ call' = Some([call[1] EXCEPT !.returned =
                        Some(float_adaptive_delay(call[1].domain, call[1].stats))])

\* the delay computed again for stats changed in one field
recalculate_adaptive_delay(stats) ==
    /\ call # None
    /\ call[1].method = "calculate_adaptive_delay"
    /\ call[1].returned # None
    /\ call' = Some([call[1] EXCEPT !.stats = stats,
                                    !.returned = Some(float_adaptive_delay(call[1].domain, stats))])

\* the domain has failed once more
recalculate_after_error ==
    /\ call # None
    /\ call[1].method = "calculate_adaptive_delay"
    /\ call[1].stats.consecutive_errors < MaxErrors
    /\ recalculate_adaptive_delay([call[1].stats EXCEPT !.consecutive_errors = @ + 1])

\* rate limiting has been detected on the domain
recalculate_after_rate_limit ==
    /\ call # None
    /\ call[1].method = "calculate_adaptive_delay"
    /\ ~call[1].stats.rate_limit_detected
    /\ recalculate_adaptive_delay([call[1].stats EXCEPT !.rate_limit_detected = TRUE])

\* load_balancer.update_tier_performance(tier, response_time, success, current_load):
\* returned holds the tier's statistics after the call
call_update_tier_performance ==
    /\ call # None
    /\ call[1].method = "update_tier_performance"
    /\ call[1].returned = None
    /\ call' = Some([call[1] EXCEPT !.returned =
                        Some(updated_stats(call[1].stats, call[1].response_time,
                                           call[1].success, call[1].current_load))])

NextCalls ==
    \/ call_should_retry /\ UNCHANGED otherThanCalls
    \/ call_update_tier_performance /\ UNCHANGED otherThanCalls
    \/ call_calculate_retry_delay /\ UNCHANGED otherThanCalls
    \/ call_record_request_result /\ UNCHANGED otherThanCalls
    \/ call_calculate_adaptive_delay /\ UNCHANGED otherThanCalls
    \/ recalculate_after_error /\ UNCHANGED otherThanCalls
    \/ recalculate_after_rate_limit /\ UNCHANGED otherThanCalls

InitSpecCalls ==
    /\ InitBalancer /\ InitApi /\ InitLimiter /\ tier = "government" /\ InitIdle
    /\ InitScheduler /\ InitRun /\ InitNoWorkers
    /\ \E pending \in PendingCalls : call = Some(pending)

SpecCalls == InitSpecCalls /\ [][NextCalls]_vars

----------------------------------------------------------------------------
(* The task scheduler                                                      *)

otherThanScheduler == <<lbVars, apiVars, engineVars, limiterVars, callVars, runVars, workerVars>>

NextScheduler ==
    \/ schedule_tasks /\ UNCHANGED otherThanScheduler
    \/ \E batch_size \in BatchSizes : get_next_batch(batch_size) /\ UNCHANGED otherThanScheduler

\* a fresh scheduler and the task list its caller is about to schedule
InitSpecScheduler ==
    /\ InitBalancer /\ InitApi /\ InitLimiter /\ tier = "government" /\ InitIdle
    /\ InitCalls /\ InitRun /\ InitNoWorkers
    /\ tasks \in TaskLists
    /\ task_queues = [p \in Priorities |-> <<>>]
    /\ next_batch = None

SpecScheduler == InitSpecScheduler /\ [][NextScheduler]_vars

----------------------------------------------------------------------------
(* The deduplicator                                                        *)

otherThanDedup == <<lbVars, apiVars, tierVars, taskVars, limiterVars, schedVars, runVars, workerVars>>

NextDedup ==
    \/ \E content \in DedupContents, url \in DedupUrls :
          is_duplicate(content, url) /\ UNCHANGED otherThanDedup

\* a freshly constructed deduplicator
InitSpecDedup ==
    /\ InitBalancer /\ InitApi /\ InitLimiter /\ tier = "government" /\ InitIdle
    /\ InitScheduler /\ InitCalls /\ InitRun /\ InitNoWorkers

SpecDedup == InitSpecDedup /\ [][NextDedup]_vars

----------------------------------------------------------------------------
(* A run across the tiers                                                  *)

otherThanRun ==
    <<tier_performance, lb_return, lb_updates, apiVars, engineVars, limiterVars,
      schedVars, callVars, workerVars>>

NextRun ==
    \/ \E tier_scrapers \in SUBSET EngineTiers :
          launch_super_parallel_extraction(tier_scrapers) /\ UNCHANGED otherThanRun
    \/ \E target_tiers \in SUBSET EngineTiers :
          execute_massive_scraping_operation(target_tiers) /\ UNCHANGED otherThanRun
    \/ \E t \in EngineTiers, counts \in TierCounts :
          TierProcessed(t, counts) /\ UNCHANGED otherThanRun
    \/ \E t \in EngineTiers : TierRaised(t) /\ UNCHANGED otherThanRun
    \/ \E t \in EngineTiers : execute_tier_scraping(t) /\ UNCHANGED otherThanRun
    \/ MonitoringIteration /\ UNCHANGED otherThanRun
    \/ GatherDone /\ UNCHANGED otherThanRun
    \/ MonitoringCancelled /\ UNCHANGED otherThanRun
    \/ RunReturned /\ UNCHANGED otherThanRun
    \/ RunRaised /\ UNCHANGED otherThanRun

InitSpecRun ==
    /\ InitBalancer /\ InitApi /\ InitLimiter /\ tier = "government" /\ InitIdle
    /\ InitScheduler /\ InitCalls /\ InitRun /\ InitNoWorkers

SpecRun == InitSpecRun /\ [][NextRun]_vars

----------------------------------------------------------------------------
(* One tier of a launched run whose every URL is answered 503 twice and    *)
(* 200 the third time, each page with content and URL pattern of its own   *)

\* the first two requests of a URL are answered 503 Service Unavailable
ServiceUnavailable(u) ==
    /\ fetches[u] <= 2
    /\ FetchHttpError(u, 503)

\* the third request of a URL is answered 200
ThirdRequestOk(u) ==
    /\ fetches[u] > 2
    /\ FetchOk(u)

NextScenario ==
    \/ TierStart /\ UNCHANGED otherThanTier
    \/ \E u \in 1..urls : AcquireSlot(u) /\ UNCHANGED otherThanTier
    \/ \E u \in 1..urls : AcquireScraper(u) /\ UNCHANGED otherThanTier
    \/ \E u \in 1..urls : ServiceUnavailable(u) /\ UNCHANGED otherThanTier
    \/ \E u \in 1..urls : ThirdRequestOk(u) /\ UNCHANGED otherThanTier
    \/ \E u \in 1..urls : OuterBackoffDone(u) /\ UNCHANGED otherThanTier
    \/ BatchDone /\ UNCHANGED otherThanTier

InitScenario ==
    /\ InitLimiter
    /\ InitScheduler /\ InitCalls /\ InitRun /\ InitNoWorkers
    /\ lb_return = None
    /\ lb_updates = 0
    /\ tier \in EngineTiers
    /\ tier_pc = "init"
    /\ urls = 0
    /\ batch = [first |-> 1, size |-> 0]
    /\ tier_semaphore = 0
    /\ pc = <<>>
    /\ attempt = <<>>
    /\ retry_count = <<>>
    /\ held = <<>>
    /\ fetches = <<>>
    /\ last_error = <<>>
    /\ results = <<>>
    /\ tier_performance = [t \in Tiers |-> TierDefaults]
    /\ metrics = [cpu_usage_percent |-> 0, memory_usage_mb |-> 0,
                  tasks_completed |-> 0, tasks_failed |-> 0]
    /\ Started([target_documents |-> Some(9), max_concurrent_workers |-> Some(1000),
                quality_threshold |-> None])
    /\ scraper_semaphore = MaxConcurrent
    /\ failures_left = 2 * generate_tier_urls(tier, 9 \div Cardinality(EngineTiers))
    /\ content_hashes = {}
    /\ url_patterns = {}

\* the event loop resumes every coroutine that is ready, and every sleep ends
SpecScenario == InitScenario /\ [][NextScenario]_vars /\ WF_vars(NextScenario)

----------------------------------------------------------------------------
(* The task scheduler drained by repeated get_next_batch calls             *)

\* batch sizes of at least one task
DrainSizes == {1, 3, 10}

\* task lists over the government task and the tasks of the journals tier,
\* which land in the critical, high, medium and background queues
DrainLists ==
    UNION {[1..n -> {t \in TaskPool : t.tier \in {"government", "journals"}}] :
             n \in 0..MaxTasks}

\* schedule_tasks called once, on the fresh scheduler
ScheduleFresh ==
    /\ next_batch = None
    /\ \A p \in Priorities : task_queues[p] = <<>>
    /\ schedule_tasks

\* one get_next_batch call of the caller's loop
DrainCall ==
    \E batch_size \in DrainSizes : get_next_batch(batch_size) /\ UNCHANGED otherThanScheduler

NextDrain ==
    \/ ScheduleFresh /\ UNCHANGED otherThanScheduler
    \/ DrainCall

InitDrain ==
    /\ InitBalancer /\ InitApi /\ InitLimiter /\ tier = "government" /\ InitIdle
    /\ InitCalls /\ InitRun /\ InitNoWorkers
    /\ tasks \in DrainLists
    /\ task_queues = [p \in Priorities |-> <<>>]
    /\ next_batch = None

\* the caller keeps asking for batches: a call is possible in every state, so
\* weak fairness of DrainCall is that calls happen again and again
SpecDrain == InitDrain /\ [][NextDrain]_vars /\ []<><<DrainCall>>_vars

----------------------------------------------------------------------------
(* Two workers of one tier inside extract_content_from_url.  The workers   *)
(* are asyncio tasks of one event loop: the loop runs one task at a time,  *)
(* and a task gives the loop back only at an await that really waits.      *)

WorkerContents == {"<html>influenza</html>", "<html>measles</html>"}

\* /flu/articles/123 and /flu/articles/456 (one pattern) and /flu/2024-report
WorkerUrls ==
    {url \in DedupUrls :
        /\ url.netloc = "www.cdc.gov" /\ url.query = None /\ ~url.trailing_slash
        /\ \E i \in 1..Len(url.path) : url.path[i].kind = "number"}

\* an await that yields to the event loop at each position
any_await_may_suspend(position) == TRUE

\* whether the coroutine awaited at a position can yield to the event loop:
\* response.text() waits for the network; _is_similar_content contains no
\* await, so awaiting it runs it to its return statement
may_suspend(position) == position = "await_text"

\* where a worker goes on after the awaited coroutine has returned;
\* _is_similar_content returns False
after_await(position) ==
    IF position \in {"await_text", "in_text"} THEN "hash_check" ELSE "metadata_check"

\* is_duplicate returns to extract_content_from_url
is_duplicate_returns(w, duplicate) ==
    /\ worker_returned' = [worker_returned EXCEPT ![w] = Some(duplicate)]
    /\ worker_pc' = [worker_pc EXCEPT ![w] = "returned"]

\* the event loop resumes the task whose request has been answered with 200
ResponseArrived(w) ==
    /\ loop_task = None
    /\ worker_pc[w] = "get"
    /\ loop_task' = Some(w)
    /\ worker_pc' = [worker_pc EXCEPT ![w] = "await_text"]
    /\ UNCHANGED <<worker_input, worker_returned, dedupVars>>

\* the awaited coroutine returns without having yielded
AwaitReturns(w) ==
    /\ loop_task = Some(w)
    /\ worker_pc[w] \in {"await_text", "await_similar"}
    /\ worker_pc' = [worker_pc EXCEPT ![w] = after_await(@)]
    /\ UNCHANGED <<worker_input, worker_returned, loop_task, dedupVars>>

\* the awaited coroutine yields: the loop is free for another task
AwaitSuspends(w) ==
    /\ loop_task = Some(w)
    /\ worker_pc[w] \in {"await_text", "await_similar"}
    /\ may_suspend(worker_pc[w])
    /\ worker_pc' = [worker_pc EXCEPT ![w] = IF @ = "await_text" THEN "in_text"
                                             ELSE "in_similar"]
    /\ loop_task' = None
    /\ UNCHANGED <<worker_input, worker_returned, dedupVars>>

\* the event loop resumes a task suspended in an await
Resume(w) ==
    /\ loop_task = None
    /\ worker_pc[w] \in {"in_text", "in_similar"}
    /\ loop_task' = Some(w)
    /\ worker_pc' = [worker_pc EXCEPT ![w] = after_await(@)]
    /\ UNCHANGED <<worker_input, worker_returned, dedupVars>>

\* if content_hash in self.content_hashes: return True
HashCheck(w) ==
    /\ loop_task = Some(w)
    /\ worker_pc[w] = "hash_check"
    /\ IF content_hash(worker_input[w][1].content) \in content_hashes
       THEN is_duplicate_returns(w, TRUE)
       ELSE /\ worker_pc' = [worker_pc EXCEPT ![w] = "pattern_check"]
            /\ UNCHANGED worker_returned
    /\ UNCHANGED <<worker_input, loop_task, dedupVars>>

\* if url_pattern in self.url_patterns: return True
PatternCheck(w) ==
    /\ loop_task = Some(w)
    /\ worker_pc[w] = "pattern_check"
    /\ IF extract_url_pattern(worker_input[w][1].url) \in url_patterns
       THEN is_duplicate_returns(w, TRUE)
       ELSE /\ worker_pc' = [worker_pc EXCEPT ![w] = "await_similar"]
            /\ UNCHANGED worker_returned
    /\ UNCHANGED <<worker_input, loop_task, dedupVars>>

\* `if metadata and ...` with the metadata=None of the call, then the hash and
\* the pattern are recorded and False is returned
RecordSignatures(w) ==
    /\ loop_task = Some(w)
    /\ worker_pc[w] = "metadata_check"
    /\ content_hashes' = content_hashes \cup {content_hash(worker_input[w][1].content)}
    /\ url_patterns' = url_patterns \cup {extract_url_pattern(worker_input[w][1].url)}
    /\ is_duplicate_returns(w, FALSE)
    /\ UNCHANGED <<worker_input, loop_task>>

\* the worker goes on with the answer and gives the loop back at its next wait
\* or at its end
WorkerYields(w) ==
    /\ loop_task = Some(w)
    /\ worker_pc[w] = "returned"
    /\ worker_pc' = [worker_pc EXCEPT ![w] = "done"]
    /\ loop_task' = None
    /\ UNCHANGED <<worker_input, worker_returned, dedupVars>>

otherThanWorkers ==
    <<lbVars, apiVars, tierVars, taskVars, limiterVars, schedVars, callVars, runVars>>

NextWorkers ==
    \/ \E w \in Workers : ResponseArrived(w) /\ UNCHANGED otherThanWorkers
    \/ \E w \in Workers : AwaitReturns(w) /\ UNCHANGED otherThanWorkers
    \/ \E w \in Workers : AwaitSuspends(w) /\ UNCHANGED otherThanWorkers
    \/ \E w \in Workers : Resume(w) /\ UNCHANGED otherThanWorkers
    \/ \E w \in Workers : HashCheck(w) /\ UNCHANGED otherThanWorkers
    \/ \E w \in Workers : PatternCheck(w) /\ UNCHANGED otherThanWorkers
    \/ \E w \in Workers : RecordSignatures(w) /\ UNCHANGED otherThanWorkers
    \/ \E w \in Workers : WorkerYields(w) /\ UNCHANGED otherThanWorkers

\* both workers have sent their requests; the scraper's deduplicator is fresh
\* or has accepted one page before
InitWorkers ==
    /\ InitBalancer /\ InitApi /\ InitLimiter /\ InitScheduler /\ InitCalls /\ InitRun
    /\ tier = "government" /\ tier_pc = "idle" /\ urls = 0
    /\ batch = [first |-> 1, size |-> 0]
    /\ tier_semaphore = 0 /\ scraper_semaphore = max_concurrent(tier)
    /\ pc = <<>> /\ attempt = <<>> /\ retry_count = <<>> /\ held = <<>>
    /\ fetches = <<>> /\ last_error = <<>> /\ results = <<>>
    /\ failures_left = 0
    /\ \/ content_hashes = {} /\ url_patterns = {}
       \/ \E content \in WorkerContents, url \in WorkerUrls :
             /\ content_hashes = {content_hash(content)}
             /\ url_patterns = {extract_url_pattern(url)}
    /\ worker_pc = [w \in Workers |-> "get"]
    /\ worker_input \in [Workers -> {Some([content |-> content, url |-> url]) :
                                        content \in WorkerContents, url \in WorkerUrls}]
    /\ worker_returned = [w \in Workers |-> None]
    /\ loop_task = None

SpecWorkers == InitWorkers /\ [][NextWorkers]_vars

----------------------------------------------------------------------------
(* Properties                                                              *)

\* the value calculate_optimal_concurrency returned for the tier being processed
computed_concurrency == lb_return[1].value

\* C1: once the tier's concurrency has been computed, the tasks inside the
\* fetch/retry section of _process_single_url_with_retry number at most that
\* value, the semaphore counts exactly the free slots, and a task waiting for
\* the saturated tier has issued no request
C1_SlotHoldersWithinOptimal ==
    tier_pc \in {"gather", "done"} =>
        /\ Cardinality(slot_holders) <= computed_concurrency
        /\ tier_semaphore = computed_concurrency - Cardinality(slot_holders)
        /\ \A u \in 1..urls : pc[u] = "wait_tier" => fetches[u] = 0 /\ held[u] = 0

\* the tier is saturated and a further task of the batch is waiting for a slot
C1_Saturated ==
    /\ tier_pc = "gather"
    /\ Cardinality(slot_holders) = computed_concurrency
    /\ \E u \in 1..urls : pc[u] = "wait_tier"
    /\ \E u \in 1..urls : pc[u] = "done"

\* C2: the tasks of a batch never all wait for a slot: while some task of the
\* batch is unfinished, at least one unfinished task is not waiting for a
\* slot of an exhausted semaphore
C2_NoSlotDeadlock ==
    LET waits_for_slot(u) ==
            \/ pc[u] = "wait_tier" /\ tier_semaphore = 0
            \/ pc[u] = "wait_scraper" /\ scraper_semaphore = 0
    IN tier_pc = "gather" =>
          \/ \A u \in batch_urls : pc[u] = "done"
          \/ \E u \in batch_urls : pc[u] # "done" /\ ~waits_for_slot(u)

\* C3: the attempt counter of the worker's retry loop never exceeds
\* max_retries of the tier, no request is in progress beyond that limit, and
\* a task whose retries are used up has finished with a failed result
C3_RetriesWithinLimit ==
    \A u \in 1..urls :
        /\ attempt[u] <= tier_max_retries(tier)
        /\ attempt[u] <= 4 \/ pc[u] = "done"
        /\ pc[u] = "done" => results[u] # None

\* a task has used up the retries of its tier and has returned a failure
C3_RetriesExhausted ==
    \E u \in 1..urls :
        /\ attempt[u] = tier_max_retries(tier)
        /\ pc[u] = "done"
        /\ ~results[u][1].success
        /\ fetches[u] >= attempt[u]

\* C4: the value calculate_optimal_concurrency returns and the value stored
\* as the tier's optimal_concurrency lie within [10, 500], whatever updates
\* and resource samples came before
C4_OptimalWithinBounds ==
    /\ \A t \in Tiers : tier_performance[t].optimal_concurrency \in 10..500
    /\ lb_return # None =>
          /\ lb_return[1].value \in 10..500
          /\ tier_performance[lb_return[1].tier].optimal_concurrency = lb_return[1].value

\* after updates, the product of the multipliers lies below 10 and the value
\* returned is the lower bound
C4_LowerBoundApplied ==
    /\ lb_updates > 0
    /\ lb_return # None
    /\ lb_return[1].value = 10
    /\ raw_optimal(tier, tier_performance[tier], metrics) < 10

\* C5: a step that grants a permit for a domain (total_requests grows) happens
\* only when the time since the domain's last granted permit is at least the
\* delay computed from the domain's statistics at that moment, and it records
\* the time of the grant
C5_PermitRespectsDelay ==
    [][\A d \in Domains :
          domain_stats'[d].total_requests > domain_stats[d].total_requests =>
              /\ (now - domain_stats[d].last_request_time) * 1000000
                    >= calculate_adaptive_delay(d, domain_stats[d])
              /\ domain_stats'[d].last_request_time = now
              /\ domain_stats'[d].total_requests = domain_stats[d].total_requests + 1]_vars

\* a domain has been granted two permits, the second after a recorded failure
\* had lengthened its delay
C5_SecondPermitGranted ==
    \E d \in Domains :
        /\ domain_stats[d].total_requests = 2
        /\ domain_stats[d].consecutive_errors > 0
        /\ domain_stats[d].last_request_time > 1000

\* C6: every request a worker issues is preceded by a granted rate-limiter
\* permit: no task has issued more requests than permits have been granted
C6_FetchPrecededByPermit ==
    \A u \in DOMAIN fetches : fetches[u] <= permits_granted

\* the two Start endpoints
StartCalls == {"start_comprehensive_scraping", "start_medical_extraction"}

\* C7: a Start call whose request has target_documents outside [1, 1000000]
\* or quality_threshold outside [0, 1] is answered with the validation error,
\* and no operation is ever created from such a request
C7_StartRejectsInvalid ==
    LET outside_ranges(request) ==
            \/ /\ request.target_documents # None
               /\ \/ request.target_documents[1] < 1
                  \/ request.target_documents[1] > 1000000
            \/ /\ request.quality_threshold # None
               /\ \/ request.quality_threshold[1] < 0
                  \/ request.quality_threshold[1] > 100
    IN /\ response.call \in StartCalls /\ outside_ranges(response.request) =>
             response.status = 422
       /\ current_operation # None => ~outside_ranges(current_operation[1].config)

\* C8 as stated: a Start call made while an operation is running is answered
\* with the conflict error
C8_StartWhileRunningConflicts ==
    [][(/\ current_operation # None
        /\ current_operation[1].status = "running"
        /\ response' # response
        /\ response'.call \in StartCalls)
       => response'.status = 409]_vars

\* C8: a Start call made while an operation is running is rejected, with the
\* validation error when start_comprehensive_scraping's validation rejects the
\* request and with the conflict error otherwise, and it leaves the operation,
\* the configuration and the set of background runs unchanged
C8_StartWhileRunningRejected ==
    [][(/\ current_operation # None
        /\ current_operation[1].status = "running"
        /\ response' # response
        /\ response'.call \in StartCalls)
       => /\ response'.status =
                IF /\ response'.call = "start_comprehensive_scraping"
                   /\ \/ target_documents_rejected(response'.request)
                      \/ quality_threshold_rejected(response'.request)
                THEN 422 ELSE 409
          /\ current_operation' = current_operation
          /\ background' = background
          /\ phase1_config' = phase1_config]_vars

\* an operation is running and a Start call has just been answered with the
\* validation error
C8_ValidationErrorWhileRunning ==
    /\ current_operation # None
    /\ current_operation[1].status = "running"
    /\ response.call = "start_comprehensive_scraping"
    /\ response.status = 422

\* C9: once Stop has succeeded, no task of the run issues a request it had not
\* yet issued
C9_NoFetchAfterStop ==
    [][(current_operation # None /\ current_operation[1].status = "stopped") =>
          \A u \in DOMAIN fetches :
              u \in DOMAIN fetches' => fetches'[u] = fetches[u]]_vars

\* C10: no value returned by calculate_optimal_concurrency lies above the
\* max_concurrent_workers of the run's configuration
C10_OptimalWithinWorkerCeiling ==
    lb_return # None => lb_return[1].value <= phase1_config.max_concurrent_workers[1]

C12_BatchWithinSize ==
    next_batch # None => Len(next_batch[1].returned) <= next_batch[1].batch_size

\* C13: a get_next_batch call whose size exceeds the number of queued tasks
\* returns every queued task exactly once and leaves all queues empty, with
\* nothing added; on empty queues the batch is empty
C13_OversizedBatchReturnsAll ==
    [][LET queued == UNION {{task_queues[p][k] : k \in 1..Len(task_queues[p])} : p \in Priorities}
           total == Len(task_queues[1]) + Len(task_queues[2]) + Len(task_queues[3])
                      + Len(task_queues[4]) + Len(task_queues[5])
       IN (/\ next_batch' # None
           /\ <<task_queues, next_batch>>' # <<task_queues, next_batch>>
           /\ \/ total = 0
              \/ total < next_batch'[1].batch_size)
          => /\ Len(next_batch'[1].returned) = total
             /\ {next_batch'[1].returned[k] : k \in 1..total} = queued
             /\ \A p \in Priorities : task_queues'[p] = <<>>]_vars

\* C13 witness: four tasks from three queues, the background queue among
\* them, all returned by one call of size 10
C13_AllReturned ==
    /\ next_batch # None
    /\ next_batch[1].batch_size = 10
    /\ Len(tasks) = MaxTasks
    /\ {next_batch[1].returned[k] : k \in 1..Len(next_batch[1].returned)} = 1..MaxTasks
    /\ Len(next_batch[1].returned) = MaxTasks
    /\ Cardinality({tasks[i].priority : i \in 1..MaxTasks}) >= 3
    /\ \E i \in 1..MaxTasks : tasks[i].priority = 5
    /\ \A p \in Priorities : task_queues[p] = <<>>

\* C14: schedule_tasks leaves every task at its priority or moves it exactly
\* one level up (never down), and moves only tasks of the high-trust tiers
\* and of the API tier
C14_PromotionWithinOneLevel ==
    [][\A i \in 1..Len(tasks) :
          /\ tasks'[i].priority \in {tasks[i].priority, tasks[i].priority - 1}
          /\ tasks'[i].priority # tasks[i].priority
                => tasks[i].tier \in {"government", "international", "apis"}]_vars

\* C15: in every priority queue, of two adjacent tasks the earlier one has
\* the higher success_probability, or on a tie the shorter
\* estimated_processing_time, or on a tie the higher content_quality_score,
\* or on a tie the older creation time; tasks equal in all four stand in
\* their input order
C15_QueuesOrdered ==
    \A p \in Priorities : \A k \in 1..(Len(task_queues[p]) - 1) :
        LET a == tasks[task_queues[p][k]]
            b == tasks[task_queues[p][k + 1]]
        IN IF a.success_probability # b.success_probability
           THEN a.success_probability > b.success_probability
           ELSE IF a.estimated_processing_time # b.estimated_processing_time
           THEN a.estimated_processing_time < b.estimated_processing_time
           ELSE IF a.content_quality_score # b.content_quality_score
           THEN a.content_quality_score > b.content_quality_score
           ELSE IF a.created_at # b.created_at
           THEN a.created_at < b.created_at
           ELSE task_queues[p][k] < task_queues[p][k + 1]

\* C15 witness: a queue of four scheduled tasks that is not in input order
\* and holds two adjacent tasks with equal keys
C15_ReorderedQueueWithTie ==
    /\ Len(task_queues[2]) = 4
    /\ task_queues[2][1] > task_queues[2][2]
    /\ \E k \in 1..3 :
          LET a == tasks[task_queues[2][k]]
              b == tasks[task_queues[2][k + 1]]
          IN /\ a.success_probability = b.success_probability
             /\ a.estimated_processing_time = b.estimated_processing_time
             /\ a.content_quality_score = b.content_quality_score
             /\ a.created_at = b.created_at
    /\ \E k \in 1..3 :
          tasks[task_queues[2][k]].success_probability
              > tasks[task_queues[2][k + 1]].success_probability

\* C16: should_retry returns false from the tier's maximum on (5 government,
\* 4 international, 3 otherwise); below it, it returns true exactly for a
\* timeout, a connection reset or refusal, a DNS failure and HTTP 429, 502,
\* 503, 504, and false for every other error
C16_RetryableClassesRetried ==
    (call # None /\ call[1].method = "should_retry" /\ call[1].returned # None) =>
        LET c == call[1]
            limit == IF c.tier = "government" THEN 5
                     ELSE IF c.tier = "international" THEN 4 ELSE 3
            retryable == c.error.raised_by \in
                            {"timeout", "connection reset", "connection refused",
                             "dns failure", "http 429", "http 502", "http 503", "http 504"}
        IN c.returned[1] = (c.attempt_number < limit /\ retryable)

\* C17: the delay returned by calculate_retry_delay is positive and at most
\* 60 seconds, and it is base(tier) x 2^attempt, moved by at most 20% either
\* way, times 5 for a rate-limiting error, cut at 60 seconds
C17_RetryDelayCapped ==
    (call # None /\ call[1].method = "calculate_retry_delay" /\ call[1].returned # None) =>
        LET c == call[1]
            base == IF c.tier = "government" THEN 2000
                    ELSE IF c.tier = "international" THEN 3000
                    ELSE IF c.tier = "academic" THEN 1500 ELSE 2000
            factor == IF c.error.raised_by = "http 429" THEN 5 ELSE 1
            nominal == base * (2 ^ c.attempt_number) * factor
        IN /\ 0 < c.returned[1]
           /\ c.returned[1] <= 60000
           /\ \/ c.returned[1] = 60000 /\ 60000 * 5 <= nominal * 6
              \/ /\ nominal * 4 <= c.returned[1] * 5
                 /\ c.returned[1] * 5 <= nominal * 6

\* C17 witness: a rate-limited retry whose fivefold delay is cut at 60 seconds
C17_RateLimitedDelayAtCap ==
    /\ call # None
    /\ call[1].method = "calculate_retry_delay"
    /\ call[1].error.raised_by = "http 429"
    /\ call[1].tier = "international"
    /\ call[1].attempt_number = 3
    /\ call[1].draw = -200
    /\ call[1].returned = Some(60000)

\* C18: record_request_result on success sets the domain's consecutive_errors
\* to 0 and rate_limit_detected to false; on failure it adds one to
\* consecutive_errors and sets rate_limit_detected when the status code is
\* 429, 502 or 503 or the new consecutive_errors is 3 or more, and otherwise
\* leaves the flag as it was
C18_ResultRecorded ==
    (call # None /\ call[1].method = "record_request_result" /\ call[1].returned # None) =>
        LET before == call[1].stats
            after == call[1].returned[1]
            status_code == call[1].outcome[2]
        IN IF call[1].outcome[1]
           THEN after.consecutive_errors = 0 /\ ~after.rate_limit_detected
           ELSE /\ after.consecutive_errors = before.consecutive_errors + 1
                /\ after.rate_limit_detected =
                      IF status_code = 429 \/ status_code = 502 \/ status_code = 503
                         \/ before.consecutive_errors + 1 >= 3
                      THEN TRUE ELSE before.rate_limit_detected

\* C18 witness: a third consecutive failure with a status code outside
\* 429, 502, 503 raises the flag
C18_ThirdErrorRaisesFlag ==
    /\ call # None
    /\ call[1].method = "record_request_result"
    /\ call[1].returned # None
    /\ call[1].outcome = <<FALSE, 404>>
    /\ call[1].stats.consecutive_errors = 2
    /\ ~call[1].stats.rate_limit_detected
    /\ call[1].returned[1].rate_limit_detected
    /\ call[1].returned[1].consecutive_errors = 3

\* C19: with the domain and all other stats unchanged, the delay computed
\* after one more consecutive error is never below the delay computed before
\* it: it grows up to the fourth error (factors 1.5, 2.25, 3.375, 5.0) and
\* stays the same from then on
C19_DelayMonotoneInErrors ==
    [][(/\ call # None
        /\ call[1].method = "calculate_adaptive_delay"
        /\ call[1].returned # None
        /\ call'[1].stats = [call[1].stats EXCEPT !.consecutive_errors = @ + 1])
       => /\ ~float_less(call'[1].returned[1], call[1].returned[1])
          /\ call[1].stats.consecutive_errors < 4
                => float_less(call[1].returned[1], call'[1].returned[1])
          /\ call[1].stats.consecutive_errors >= 4
                => call'[1].returned = call[1].returned]_vars

\* C19 witness: the delay of www.cdc.gov after five consecutive errors,
\* 3.0 * 5.0 = 15.0 seconds
C19_DelayAtErrorCeiling ==
    /\ call # None
    /\ call[1].method = "calculate_adaptive_delay"
    /\ call[1].domain = "www.cdc.gov"
    /\ call[1].stats.consecutive_errors = MaxErrors
    /\ call[1].stats.total_requests = 0
    /\ ~call[1].stats.rate_limit_detected
    /\ call[1].stats.avg_response_time = 0
    /\ call[1].returned = Some(dyadic(15, 0))

\* C20 (as claimed): with the domain and all other stats unchanged, the delay
\* computed with rate_limit_detected true is exactly 10.0 times the delay
\* computed with it false
C20_RateLimitDelayExactlyTenfold ==
    [][(/\ call # None
        /\ call[1].method = "calculate_adaptive_delay"
        /\ call[1].returned # None
        /\ ~call[1].stats.rate_limit_detected
        /\ call'[1].stats = [call[1].stats EXCEPT !.rate_limit_detected = TRUE])
       => call'[1].returned[1] = float_mul(dyadic(10, 0), call[1].returned[1])]_vars

\* C20 (amended): the delay computed with rate_limit_detected true is 10.0
\* times the delay computed with it false when the average response time is
\* at most 5 seconds, and within two units in the last place of it otherwise
C20_RateLimitDelayTenfoldRounded ==
    [][(/\ call # None
        /\ call[1].method = "calculate_adaptive_delay"
        /\ call[1].returned # None
        /\ ~call[1].stats.rate_limit_detected
        /\ call'[1].stats = [call[1].stats EXCEPT !.rate_limit_detected = TRUE])
       => LET next_up(x) ==
                  LET m == incremented(x.mant)
                  IN IF bit(m, 53) = 1
                     THEN [mant |-> shifted_right(m, 1), exp |-> x.exp + 1]
                     ELSE [mant |-> m, exp |-> x.exp]
              tenfold == float_mul(dyadic(10, 0), call[1].returned[1])
              flagged == call'[1].returned[1]
          IN /\ \/ flagged \in {tenfold, next_up(tenfold), next_up(next_up(tenfold))}
                \/ tenfold \in {next_up(flagged), next_up(next_up(flagged))}
             /\ call[1].stats.avg_response_time <= 500 => flagged = tenfold]_vars

\* C20 witness: www.cdc.gov after one error with slow responses: the flagged
\* delay is 54.0 seconds, ten times the unflagged one 53.99999999999999
C20_FlaggedDelayOffByRounding ==
    /\ call # None
    /\ call[1].method = "calculate_adaptive_delay"
    /\ call[1].domain = "www.cdc.gov"
    /\ call[1].stats.consecutive_errors = 1
    /\ call[1].stats.total_requests = 0
    /\ call[1].stats.avg_response_time = 600
    /\ call[1].stats.rate_limit_detected
    /\ call[1].returned # None
    /\ call[1].returned = Some(dyadic(54, 0))
    /\ float_less(float_mul(dyadic(10, 0),
                            float_adaptive_delay("www.cdc.gov",
                                [call[1].stats EXCEPT !.rate_limit_detected = FALSE])),
                  dyadic(54, 0))

\* C21 (as claimed): once is_duplicate has returned for a content, the next
\* call with the same content returns true
C21_SameContentThenDuplicate ==
    [][(call # None /\ call' # call /\ call'[1].method = "is_duplicate"
        /\ call[1].method = "is_duplicate" /\ call'[1].content = call[1].content)
       => call'[1].returned]_vars

\* C21 (amended): once is_duplicate has returned false for a content, every
\* later call with that content returns true, whatever calls happen in
\* between; a call that returned true has not recorded its content
C21_AcceptedContentThenDuplicate ==
    [][(call' # None /\ call' # call /\ call'[1].method = "is_duplicate")
       => LET accepted == IF call = None THEN {} ELSE call[1].accepted
          IN /\ call'[1].content \in accepted => call'[1].returned
             /\ accepted \subseteq call'[1].accepted
             /\ ~call'[1].returned => call'[1].content \in call'[1].accepted]_vars

\* C21 witness: a content accepted earlier is reported as a duplicate under a
\* URL whose pattern is new, after calls with another content
C21_DuplicateByHashAlone ==
    /\ call # None
    /\ call[1].method = "is_duplicate"
    /\ call[1].returned
    /\ call[1].content \in call[1].accepted
    /\ Cardinality(call[1].accepted) = 2
    /\ \A url \in call[1].recorded : url.netloc # call[1].url.netloc

\* C22: once a URL is recorded, a call with a URL that differs from it only
\* in a numeric path segment or in the value of a page=N query parameter
\* returns true, whatever its content
C22_NumberedUrlIsDuplicate ==
    [][(call' # None /\ call' # call /\ call'[1].method = "is_duplicate")
       => LET recorded == IF call = None THEN {} ELSE call[1].recorded
              asked == call'[1].url
              same_but_number(a, b) ==
                  /\ a.netloc = b.netloc
                  /\ a.trailing_slash = b.trailing_slash
                  /\ Len(a.path) = Len(b.path)
                  /\ \A i \in 1..Len(a.path) :
                        \/ a.path[i] = b.path[i]
                        \/ /\ a.path[i].kind = "number" /\ a.path[i].text = ""
                           /\ b.path[i].kind = "number" /\ b.path[i].text = ""
                  /\ \/ a.query = b.query
                     \/ /\ a.query # None /\ b.query # None
                        /\ a.query[1].name = "page" /\ b.query[1].name = "page"
          IN (\E url \in recorded : same_but_number(url, asked)) => call'[1].returned]_vars

\* C22 witness: page=7 is reported as a duplicate of the recorded page=3
\* although its content is new
C22_OtherPageIsDuplicate ==
    /\ call # None
    /\ call[1].method = "is_duplicate"
    /\ call[1].returned
    /\ call[1].content \notin call[1].accepted
    /\ call[1].url.query = Some([name |-> "page", value |-> "7"])
    /\ \E url \in call[1].recorded : url.query = Some([name |-> "page", value |-> "3"])

\* C23: a call of is_duplicate that returns true leaves the seen hashes and
\* the seen patterns as they were; a call that returns false adds one hash
\* and one pattern
C23_RecordsOnlyWhenNew ==
    [][(call' # None /\ call' # call /\ call'[1].method = "is_duplicate")
       => IF call'[1].returned
          THEN content_hashes' = content_hashes /\ url_patterns' = url_patterns
          ELSE /\ content_hashes \subseteq content_hashes'
               /\ Cardinality(content_hashes') = Cardinality(content_hashes) + 1
               /\ url_patterns \subseteq url_patterns'
               /\ Cardinality(url_patterns') = Cardinality(url_patterns) + 1]_vars

\* C23 witness: a call answered true by the URL pattern alone, its content
\* hash still unknown to the deduplicator
C23_PatternMatchNotRecorded ==
    /\ call # None
    /\ call[1].method = "is_duplicate"
    /\ call[1].returned
    /\ call[1].content \notin call[1].accepted
    /\ Cardinality(content_hashes) = 1
    /\ Cardinality(url_patterns) = 1
    /\ call[1].url \notin call[1].recorded

\* C24: update_tier_performance replaces success_rate by 0.1 x sample + 0.9 x old
\* (sample 1 for a success, 0 for a failure) and avg_response_time by
\* 0.1 x response_time + 0.9 x old, each to the resolution of the statistics
\* (1/SrScale, one centisecond); from success_rate 0.8 a success gives 0.82 and
\* a failure gives 0.72.
C24_MovingAverageUpdate ==
    (/\ call # None
     /\ call[1].method = "update_tier_performance"
     /\ call[1].returned # None)
    => LET old == call[1].stats
           new == call[1].returned[1]
           sample == IF call[1].success THEN SrScale ELSE 0
       IN /\ 10 * new.success_rate <= sample + 9 * old.success_rate
          /\ sample + 9 * old.success_rate < 10 * new.success_rate + 10
          /\ 10 * new.avg_response_time
                <= call[1].response_time + 9 * old.avg_response_time
          /\ call[1].response_time + 9 * old.avg_response_time
                < 10 * new.avg_response_time + 10
          /\ (old.success_rate = 8 * (SrScale \div 10) /\ call[1].success)
                => new.success_rate = 82 * (SrScale \div 100)
          /\ (old.success_rate = 8 * (SrScale \div 10) /\ ~call[1].success)
                => new.success_rate = 72 * (SrScale \div 100)

\* a success sample has moved a success_rate of 0.8 to 0.82
C24_SuccessFromDefault ==
    /\ call # None
    /\ call[1].method = "update_tier_performance"
    /\ call[1].returned # None
    /\ call[1].success
    /\ call[1].stats.success_rate = 8 * (SrScale \div 10)
    /\ call[1].returned[1].success_rate = 82 * (SrScale \div 100)

\* C25: when the processing of one tier fails with an exception, the run stays
\* in its gather and the other tiers' tasks are untouched; the run leaves the
\* gather only when every launched tier has finished; the summary returned
\* holds the counts of every tier that ran to completion, and the totals are
\* their sums; no step of a tier makes the run fail (the run can raise only
\* while compiling, from its final system reading).
C25_OtherTiersUnaffected ==
    [][/\ \A t \in EngineTiers :
             (/\ tier_tasks[t].state = "running"
              /\ \/ tier_tasks'[t].state = "exception"
                 \/ tier_tasks'[t].error)
             => /\ run_pc' = "gathering"
                /\ \A u \in EngineTiers \ {t} : tier_tasks'[u] = tier_tasks[u]
       /\ run_pc' = "raised" => run_pc \in {"compiling", "raised"}
       /\ run_pc' \in {"compiling", "returned", "raised"}
             => \A u \in EngineTiers : tier_tasks'[u].state # "running"
       /\ run_pc' = "returned"
             => LET summary == final_results'[1]
                    completed(u) == tier_tasks'[u].state = "dict" /\ ~tier_tasks'[u].error
                    count(u, field) == IF completed(u) THEN tier_tasks'[u][field] ELSE 0
                IN /\ \A u \in EngineTiers :
                         completed(u)
                         => \E entry \in summary.tier_results :
                               /\ entry.tier = u
                               /\ entry.processed_count = tier_tasks'[u].processed_count
                               /\ entry.success_count = tier_tasks'[u].success_count
                   /\ summary.total_processed
                         = count("government", "processed_count")
                           + count("international", "processed_count")
                           + count("academic", "processed_count")
                   /\ summary.total_success
                         = count("government", "success_count")
                           + count("international", "success_count")
                           + count("academic", "success_count")]_vars

\* a run of the engine has returned: one tier raised, another tier's three
\* documents are in the summary
C25_RunReturnedDespiteFailedTier ==
    /\ runner = "engine"
    /\ run_pc = "returned"
    /\ tier_tasks["government"].state = "exception"
    /\ \E entry \in final_results[1].tier_results :
          entry.tier = "academic" /\ entry.processed_count = 3
    /\ final_results[1].total_processed >= 3

\* C26: in the summary a run returns, every tier whose processing failed has an
\* entry of its own among the per-tier summaries, with zero processed and zero
\* successful documents; no launched tier is missing from the summaries.
C26_FailedTierInSummaries ==
    run_pc = "returned"
    => \A t \in EngineTiers :
          tier_tasks[t].state # "absent"
          => \E entry \in final_results[1].tier_results :
                /\ entry.tier = t
                /\ (tier_tasks[t].state = "exception" \/ tier_tasks[t].error)
                      => entry.processed_count = 0 /\ entry.success_count = 0

\* C27: when every URL is answered 503 on its first two requests and 200 on
\* the third, the tier eventually finishes with a successful Result for every
\* task, each task having made exactly 2 retry attempts (3 requests).
C27_AllSucceedAfterTwoRetries ==
    <>(/\ tier_pc = "done"
       /\ urls > 0
       /\ \A u \in 1..urls :
             /\ pc[u] = "done"
             /\ results[u] # None
             /\ results[u][1].success
             /\ attempt[u] = 2
             /\ fetches[u] = 3)

\* the government tier has finished: its three tasks succeeded on their third request
C27_TierDoneAllSuccessful ==
    /\ tier = "government"
    /\ tier_pc = "done"
    /\ urls = 3
    /\ \A u \in 1..urls : results[u] # None /\ results[u][1].success /\ attempt[u] = 2
    /\ failures_left = 0

\* C28: in that scenario the domain's rate_limit_detected flag is true at some
\* point after the 503 responses and false again once the tasks have succeeded.
C28_FlagSetThenCleared ==
    /\ <>(\E d \in Domains : domain_stats[d].rate_limit_detected)
    /\ <>[](\A d \in Domains : ~domain_stats[d].rate_limit_detected)

\* C29: in every reachable state, after any sequence of Start, Stop and
\* background completions or failures, Status reports one of idle, running,
\* completed, failed.
C29_StatusInDeclaredSet ==
    get_scraping_status.status \in {"idle", "running", "completed", "failed"}

\* C30: while launch_super_parallel_extraction waits for its tiers the
\* monitoring task is alive; once the launch has returned or raised the task
\* has finished; a finished task never changes the metrics again; an error
\* inside one iteration leaves the loop running (it sleeps and goes on) and
\* leaves the run and its tier tasks as they were.
C30_MonitoringSpansTheRun ==
    [][/\ (runner' = "engine" /\ run_pc' = "gathering")
             => monitoring_task'.state \in {"pending", "sleeping", "recovering"}
       /\ (runner' = "engine" /\ run_pc' \in {"returned", "raised"})
             => monitoring_task'.state = "finished"
       /\ monitoring_task.state = "finished"
             => metrics' = metrics /\ monitoring_task' = monitoring_task
       /\ (/\ monitoring_task.state \in {"pending", "sleeping", "recovering"}
           /\ monitoring_task' # monitoring_task
           /\ monitoring_task'.state \notin {"sleeping", "cancelling"})
             => /\ monitoring_task'.state = "recovering"
                /\ run_pc' = run_pc
                /\ tier_tasks' = tier_tasks]_vars

\* a launch has returned after its monitor sampled and also failed an iteration
C30_MonitorFinishedAfterError ==
    /\ runner = "engine"
    /\ run_pc = "returned"
    /\ monitoring_task = [state |-> "finished", failed |-> TRUE]
    /\ metrics.cpu_usage_percent = 95

\* C31: every Result emitted by the worker path carries an error detail if and
\* only if its success flag is false; a Result once emitted for a URL is never
\* replaced by another, and when the tier is done every URL has its Result.
C31_OneResultWithDetailIffFailed ==
    [][/\ \A u \in 1..urls' :
             results'[u] # None
             => (results'[u][1].error_details # "" <=> ~results'[u][1].success)
       /\ \A u \in 1..urls : results[u] # None => results'[u] = results[u]
       /\ tier_pc' = "done" => \A u \in 1..urls' : results'[u] # None]_vars

\* a finished tier holding a successful Result and a failed one whose request
\* raised with an empty message
C31_MixedResultsEmitted ==
    /\ tier_pc = "done"
    /\ \E u \in 1..urls : results[u] # None /\ results[u][1].success
    /\ \E u \in 1..urls :
          /\ results[u] # None
          /\ ~results[u][1].success
          /\ results[u][1].error_details = "Unknown error"

\* C32: for one task the HTTP requests issued, by the worker's retry loop and by
\* the scraper's own retry on exception together, never exceed
\* max_retries(tier) + 1.
C32_RequestsWithinRetryLimit ==
    \A u \in 1..urls : fetches[u] <= tier_max_retries(tier) + 1

\* C33: when the worker records the final failure of a task, the concurrency
\* the load balancer computes for the tier from the same CPU and memory
\* readings is not higher after the update than before it.
C33_FailureNeverRaisesConcurrency ==
    [][\A u \in 1..urls :
          (/\ results[u] = None
           /\ results'[u] # None
           /\ ~results'[u][1].success
           /\ metrics' = metrics)
          => optimal_concurrency(tier, tier_performance'[tier], metrics')
                <= optimal_concurrency(tier, tier_performance[tier], metrics)]_vars

\* C34: at most one background run is queued or executing at any time, also
\* after Stop; and a run that completes or fails changes the operation only
\* when the operation is its own.
C34_SingleRunOwnsOperation ==
    [][/\ Len(background') <= 1
       /\ \A i \in 1..Len(background) :
             (background' = RemoveAt(background, i) /\ current_operation' # current_operation)
             => current_operation[1].operation_id = background[i].operation_id]_vars

\* C35: schedule_tasks puts every task of the list into exactly one priority
\* queue, once; a get_next_batch call moves tasks from the queues to the batch
\* it returns: the batch holds no task twice, the tasks it returns are gone
\* from every queue, and the tasks still queued together with the batch are
\* exactly the tasks queued before the call.  So a task is returned at most
\* once and none is lost.
C35_TasksConserved ==
    [][LET queued(queues) ==
               UNION {{queues[p][k] : k \in 1..Len(queues[p])} : p \in Priorities}
           total(queues) ==
               Len(queues[1]) + Len(queues[2]) + Len(queues[3])
                 + Len(queues[4]) + Len(queues[5])
       IN /\ total(task_queues') = Cardinality(queued(task_queues'))
          /\ (next_batch' = None /\ task_queues' # task_queues)
                => queued(task_queues') = 1..Len(tasks')
          /\ (next_batch' # None /\ <<task_queues, next_batch>>' # <<task_queues, next_batch>>)
                => LET returned == next_batch'[1].returned
                       batch_tasks == {returned[k] : k \in 1..Len(returned)}
                   IN /\ Cardinality(batch_tasks) = Len(returned)
                      /\ batch_tasks \cap queued(task_queues') = {}
                      /\ batch_tasks \cup queued(task_queues') = queued(task_queues)]_vars

\* a call of size 3 has returned part of four scheduled tasks; the rest is queued
C35_BatchAndRemainder ==
    /\ Len(tasks) = MaxTasks
    /\ next_batch # None
    /\ next_batch[1].batch_size = 3
    /\ Len(next_batch[1].returned) > 0
    /\ Len(task_queues[1]) + Len(task_queues[2]) + Len(task_queues[3])
         + Len(task_queues[4]) + Len(task_queues[5]) > 0
    /\ Len(next_batch[1].returned)
         + Len(task_queues[1]) + Len(task_queues[2]) + Len(task_queues[3])
         + Len(task_queues[4]) + Len(task_queues[5]) = MaxTasks

\* C36: under repeated get_next_batch calls of size 1 or more, whenever tasks
\* are queued all queues are eventually empty (every scheduled task has been
\* returned, Background tasks included); and a call returns a Background task
\* only if it leaves no task of a more urgent priority queued.
C36_QueuesDrainInPriorityOrder ==
    /\ (\E p \in Priorities : task_queues[p] # <<>>)
          ~> (\A p \in Priorities : task_queues[p] = <<>>)
    /\ [][(/\ next_batch' # None
           /\ <<task_queues, next_batch>>' # <<task_queues, next_batch>>
           /\ \E k \in 1..Len(next_batch'[1].returned) :
                 tasks[next_batch'[1].returned[k]].priority = 5)
          => \A p \in 1..4 : task_queues'[p] = <<>>]_vars

\* a call of size 1 has returned a Background task, the last task queued,
\* after more urgent tasks had been scheduled with it
C36_BackgroundReturnedLast ==
    /\ Len(tasks) = MaxTasks
    /\ \E i \in 1..Len(tasks) : tasks[i].priority < 5
    /\ next_batch # None
    /\ next_batch[1].batch_size = 1
    /\ Len(next_batch[1].returned) = 1
    /\ tasks[next_batch[1].returned[1]].priority = 5
    /\ \A p \in Priorities : task_queues[p] = <<>>

\* the URLs whose batch has been gathered and counted by _update_batch_metrics
accounted_urls ==
    IF tier_pc = "done" THEN 1..urls
    ELSE IF tier_pc = "gather" THEN 1..(batch.first - 1)
    ELSE {}

\* C37: after every batch, tasks_completed is the number of emitted Results
\* with success = true, tasks_failed is the number of attempted tasks that did
\* not succeed, and the two add up to the number of tasks attempted so far.
C37_MetricsCountSuccesses ==
    LET succeeded == {u \in accounted_urls : results[u] # None /\ results[u][1].success}
    IN /\ metrics.tasks_completed = Cardinality(succeeded)
       /\ metrics.tasks_failed = Cardinality(accounted_urls) - Cardinality(succeeded)
       /\ metrics.tasks_completed + metrics.tasks_failed = Cardinality(accounted_urls)

\* the results recorded for a domain according to its two counters
results_counted(stats) == stats.success_count + stats.error_count

\* C38: after any sequence of record_request_result calls for a domain,
\* rate_limit_detected is true whenever consecutive_errors >= 3 and false
\* whenever consecutive_errors = 0, and success_count + error_count is the
\* number of results recorded: 0 for the fresh domain, at most the length of
\* the history, and one more after each call.
C38_FlagFollowsErrorStreak ==
    LET settled(stats) ==
            /\ stats.consecutive_errors >= 3 => stats.rate_limit_detected
            /\ stats.consecutive_errors = 0 => ~stats.rate_limit_detected
    IN /\ results_counted(DomainDefaults) = 0
       /\ (call # None /\ call[1].method = "record_request_result") =>
             /\ settled(call[1].stats)
             /\ results_counted(call[1].stats) <= MaxHistory
             /\ call[1].returned # None =>
                   /\ settled(call[1].returned[1])
                   /\ results_counted(call[1].returned[1])
                         = results_counted(call[1].stats) + 1

\* C38 witness: after three failures with status codes outside 429, 502, 503
\* the flag is up, and the success recorded fourth clears streak and flag
C38_SuccessAfterThreeErrors ==
    /\ call # None
    /\ call[1].method = "record_request_result"
    /\ call[1].stats.consecutive_errors = 3
    /\ call[1].stats.rate_limit_detected
    /\ call[1].stats.success_count = 0
    /\ call[1].outcome = <<TRUE, 200>>
    /\ call[1].returned # None
    /\ call[1].returned[1].consecutive_errors = 0
    /\ ~call[1].returned[1].rate_limit_detected
    /\ results_counted(call[1].returned[1]) = 4

\* the workers whose is_duplicate call returned False
accepting_workers == {w \in Workers : worker_returned[w] = Some(FALSE)}

\* both calls have returned and were made with identical content
both_returned_for_one_content ==
    /\ \A w \in Workers : worker_returned[w] # None
    /\ \A v, w \in Workers : worker_input[v][1].content = worker_input[w][1].content

\* C39 (as claimed): when two workers call is_duplicate concurrently with
\* identical content, exactly one of the two calls returns false and the other
\* returns true, in every interleaving of the two calls.
C39_ExactlyOneAccepts ==
    both_returned_for_one_content => Cardinality(accepting_workers) = 1

\* C39 (amended): of two concurrent calls with identical content at most one
\* returns false, in every interleaving; exactly one returns false and the
\* other true when the deduplicator holds nothing but what these two calls
\* recorded, that is, when it had seen neither the content nor a URL pattern
\* before.
C39_AtMostOneAccepts ==
    both_returned_for_one_content =>
        /\ Cardinality(accepting_workers) <= 1
        /\ (/\ content_hashes
                 = {content_hash(worker_input[w][1].content) : w \in accepting_workers}
            /\ url_patterns
                 = {extract_url_pattern(worker_input[w][1].url) : w \in accepting_workers})
           => Cardinality(accepting_workers) = 1

\* C39 witness: on a fresh deduplicator worker 2's call accepted the content
\* and worker 1's call, made with the same content and a URL of another
\* pattern, found the hash
C39_SecondWorkerAccepted ==
    /\ both_returned_for_one_content
    /\ \A w \in Workers : worker_pc[w] = "done"
    /\ worker_returned[1] = Some(TRUE)
    /\ worker_returned[2] = Some(FALSE)
    /\ extract_url_pattern(worker_input[1][1].url) # extract_url_pattern(worker_input[2][1].url)
    /\ Cardinality(content_hashes) = 1
    /\ Cardinality(url_patterns) = 1

====
